---- MODULE Spec2Model ----
(***************************************************************************)
(* A model of the signal bus of Cradle_Selrena                             *)
(* (src/src/cradle/selrena/synapse/event_bus.py): the two subscription     *)
(* tables of EventBus, its four operations, and the handler tasks that     *)
(* publish() hands to asyncio.gather on the single cooperative event loop; *)
(* of the LifecycleManager (src/src/cradle/core/lifecycle.py); and of the  *)
(* two perceptual filters ReflexController and SensoryCortex               *)
(* (src/src/cradle/selrena/synapse/reflex.py, sensory_cortex.py).          *)
(***************************************************************************)
EXTENDS Integers, Sequences, FiniteSets, TLC

\* Bounds of the model.  MaxSubscribes: the subscribe() calls of a behaviour
\* of the subscription tables alone.  MaxCalls: the subscribe() and publish()
\* calls, counted together, of a behaviour with dispatch.
MaxSubscribes == 4
MaxCalls == 3

\* No behaviour with dispatch creates more handler tasks, or publishes more.
MaxTasks == MaxCalls * MaxCalls
MaxPublishes == MaxCalls

\* Routing keys (BaseEvent.name); matched by exact string equality.
Topics == {"t1", "t2"}

\* getattr(callback, "__self__", None) of a plain function.
None == "None"

\* Receiver objects, and the callbacks handed to subscribe(): one bound
\* method of each receiver and one plain function.
Owners == {"A", "B"}
Callbacks == {"A.h", "B.h", "f"}

\* receiver = getattr(callback, "__self__", None); the bound methods the
\* components of kernel.py subscribe belong to their components.
Receiver(cb) ==
    CASE cb = "A.h" -> "A"
      [] cb = "B.h" -> "B"
      [] cb = "lifecycle._on_shutdown_signal" -> "lifecycle"
      [] cb = "soul._on_hear" -> "soul"
      [] cb = "reflex.on_audio_transcription" -> "reflex"
      [] cb \in {"cortex.on_audio_transcription", "cortex.on_arousal_state"} -> "cortex"
      [] cb \in {"mouth._on_speak_action", "mouth._on_reflex_signal"} -> "mouth"
      [] OTHER -> None

VARIABLES
    subscribers,   \* EventBus._subscribers: topic -> list of callbacks
    receivers,     \* EventBus._receivers: receiver -> list of (topic, callback)
    subscribed,    \* the number of subscribe() calls made so far
    handle,        \* the closure returned by subscribe() that the caller kept
                   \* last, with whether it has been called
    tasks,         \* the handler tasks created by publish(), in the order
                   \* gather() scheduled them on the loop (FIFO ready queue)
    pubs,          \* the publish() calls, in call order
    last,          \* the latest call of the bus API and what it removed
    components,    \* LifecycleManager._components, in registration order
    is_running,    \* LifecycleManager._is_running
    shutdown_event,\* LifecycleManager._shutdown_event is set
    waiter,        \* where the caller of wait_for_shutdown() is
    runs,          \* the activations of shutdown(), in trigger order
    unregs,        \* the activations of unregister(), in call order
    torn,          \* the teardown calls made so far, in call order
    now,           \* time.time()
    reflex,        \* ReflexController: is_awake, last_wake_time
    cortex,        \* SensoryCortex: is_awake, last_wake_time
    hearings,      \* the transcriptions published so far; for one whose
                   \* handlers are in flight, where they are and the events
                   \* they have published
    woke,          \* when ReflexController last evaluated an utterance with a
                   \* wake keyword, and how many without one since
    fwd,           \* when SensoryCortex last forwarded an utterance, when it
                   \* last forwarded one with a wake keyword, and how many
                   \* it forwarded without one since
    ear,           \* AudioStream: loop, is_listening, stream, is_speech_active,
                   \* silence_frames_count, speech_buffer
    mic,           \* the capture so far: the frames delivered, those the VAD
                   \* took for speech, the first and the latest speech frame
                   \* since the last finalized segment, and the frames
                   \* delivered when the device was last opened
    segments,      \* the calls of _process_speech so far: how many, and the
                   \* latest with what became of it
    asr,           \* the coroutines submitted to the loop, in submission
                   \* order; for one in flight, where it is
    starts         \* the calls of start(), in call order

busVars == <<subscribers, receivers, subscribed, handle, tasks, pubs, last>>
lifeVars == <<components, is_running, shutdown_event, waiter, runs, unregs, torn>>
reflexVars == <<now, reflex, cortex, hearings, woke, fwd>>
earVars == <<ear, mic, segments, asr, starts>>
vars == <<busVars, lifeVars, reflexVars, earVars>>

----------------------------------------------------------------------------
\* dict and list helpers

\* d[k] of a defaultdict(list), read without creating the key.
Get(d, k) == IF k \in DOMAIN d THEN d[k] ELSE <<>>

\* d[k] = v
SetKey(d, k, v) == [x \in (DOMAIN d) \cup {k} |-> IF x = k THEN v ELSE d[x]]

\* del d[k]
DelKey(d, k) == [x \in (DOMAIN d) \ {k} |-> d[x]]

RemoveAt(l, i) == SubSeq(l, 1, i - 1) \o SubSeq(l, i + 1, Len(l))

\* The index list.remove(x) removes: the first element equal to x; 0 when
\* there is none (ValueError).
FirstIndex(l, x) ==
    IF \E i \in 1..Len(l) : l[i] = x
    THEN CHOOSE i \in 1..Len(l) :
            /\ l[i] = x
            /\ \A j \in 1..(i - 1) : l[j] # x
    ELSE 0

\* The number of elements of l equal to x.
Count(l, x) == Cardinality({i \in 1..Len(l) : l[i] = x})

\* The number of registrations in the topic index.
Registrations(S) ==
    Cardinality({ti \in (DOMAIN S) \X (1..(MaxSubscribes + MaxCalls)) :
                    ti[2] <= Len(S[ti[1]])})

----------------------------------------------------------------------------
\* subscribe

\* self._subscribers[event_name].append(callback)
SubscribeSubs(S, t, cb) == SetKey(S, t, Append(Get(S, t), cb))

\* if receiver: self._receivers[receiver].append((event_name, callback))
SubscribeRecv(R, t, cb) ==
    IF Receiver(cb) # None
    THEN SetKey(R, Receiver(cb), Append(Get(R, Receiver(cb)), <<t, cb>>))
    ELSE R

----------------------------------------------------------------------------
\* unsubscribe

\* Step 1 of unsubscribe: remove the first matching entry of the topic list,
\* delete the key of a list that became empty.
UnsubscribeSubs(S, t, cb) ==
    IF t \in DOMAIN S
    THEN LET i == FirstIndex(S[t], cb) IN
         IF i = 0 THEN S
         ELSE IF Len(S[t]) = 1 THEN DelKey(S, t)
         ELSE [S EXCEPT ![t] = RemoveAt(S[t], i)]
    ELSE S

\* Step 2 of unsubscribe left out.
UnsubscribeRecvSkipped(R, t, cb) == R

\* Step 2 of unsubscribe: the same in the receiver's list.
UnsubscribeRecv(R, t, cb) ==
    LET o == Receiver(cb) IN
    IF o # None /\ o \in DOMAIN R
    THEN LET i == FirstIndex(R[o], <<t, cb>>) IN
         IF i = 0 THEN R
         ELSE IF Len(R[o]) = 1 THEN DelKey(R, o)
         ELSE [R EXCEPT ![o] = RemoveAt(R[o], i)]
    ELSE R

----------------------------------------------------------------------------
\* unsubscribe_receiver

\* Iterating the live list while unsubscribe() removes from it visits every
\* other element only.
ReceiverPairsLive(R, o) == [i \in 1..((Len(R[o]) + 1) \div 2) |-> R[o][2 * i - 1]]

\* list(self._receivers[receiver]): the copy the loop iterates.
ReceiverPairs(R, o) == R[o]

\* for event_name, cb in <copy>: self.unsubscribe(event_name, cb)
\* T is the pair of tables [s |-> _subscribers, r |-> _receivers].
RECURSIVE UnsubscribeEach(_, _)
UnsubscribeEach(T, pairs) ==
    IF pairs = <<>> THEN T
    ELSE UnsubscribeEach(
            [s |-> UnsubscribeSubs(T.s, Head(pairs)[1], Head(pairs)[2]),
             r |-> UnsubscribeRecv(T.r, Head(pairs)[1], Head(pairs)[2])],
            Tail(pairs))

\* The tables after unsubscribe_receiver(o), the final del included.
UnsubscribeReceiverTables(S, R, o) ==
    IF o \in DOMAIN R
    THEN LET T == UnsubscribeEach([s |-> S, r |-> R], ReceiverPairs(R, o)) IN
         [s |-> T.s, r |-> IF o \in DOMAIN T.r THEN DelKey(T.r, o) ELSE T.r]
    ELSE [s |-> S, r |-> R]

----------------------------------------------------------------------------
\* publish, and asyncio.gather over the handler coroutines

\* Reading self._subscribers[event_name] without the membership test would
\* create the key in the defaultdict.
PublishSubsIndexed(S, t) == SetKey(S, t, Get(S, t))

\* The topic index after publish's lookup: `event_name in self._subscribers`
\* does not create a key.
PublishSubs(S, t) == S

\* callbacks = self._subscribers[event_name], taken only when the key exists.
MatchedCallbacks(S, t) == Get(S, t)

\* tasks = [cb(event) for cb in callbacks]; gather(*tasks) wraps every
\* coroutine in a task and schedules the tasks in list order.
NewTasks(callbacks, p) ==
    [i \in 1..Len(callbacks) |-> [pub |-> p, cb |-> callbacks[i], st |-> "pending"]]

\* A ready queue served last-in first-out.
NextToStartLifo(T) ==
    IF \E k \in 1..Len(T) : T[k].st = "pending"
    THEN CHOOSE k \in 1..Len(T) :
            /\ T[k].st = "pending"
            /\ \A j \in (k + 1)..Len(T) : T[j].st # "pending"
    ELSE 0

\* The loop's ready queue is FIFO: the next handler task to take its first
\* step is the earliest scheduled one that has not started; 0 when none.
NextToStart(T) ==
    IF \E k \in 1..Len(T) : T[k].st = "pending"
    THEN CHOOSE k \in 1..Len(T) :
            /\ T[k].st = "pending"
            /\ \A j \in 1..(k - 1) : T[j].st # "pending"
    ELSE 0

\* A gather that cancels the unfinished siblings of a child that raised.
GatherCancelsSiblings(T, k) ==
    [j \in 1..Len(T) |->
        IF T[j].pub = T[k].pub /\ T[j].st \in {"pending", "running"}
        THEN [T[j] EXCEPT !.st = "cancelled"]
        ELSE T[j]]

\* gather(*tasks) with return_exceptions left False: a child that raises
\* leaves its siblings as they are (they are not cancelled).
GatherOnException(T, k) == T

\* The tasks after handler task k ended with `out` ("done" or "raised");
\* which of the two is kept on gather's outer future only.
TasksAfterFinish(T, k, out) ==
    LET T1 == [T EXCEPT ![k].st = "finished"] IN
    IF out = "raised" THEN GatherOnException(T1, k) ELSE T1

\* gather's outer future after a child of publish p ended: the first
\* exception is set on it at once; the result is set when every child has
\* finished.
GatherFuture(fut, T, p, out) ==
    IF fut # "pending" THEN fut
    ELSE IF out = "raised" THEN "exception"
    ELSE IF \A j \in 1..Len(T) : T[j].pub = p => T[j].st \in {"finished", "cancelled"}
         THEN "result"
    ELSE "pending"

----------------------------------------------------------------------------
\* The number of topics whose callback list differs between S and S2.
TopicsChanged(S, S2) == Cardinality({t \in Topics : Get(S, t) # Get(S2, t)})

\* The record of the latest API call: removed is the number of registrations
\* it took out of the topic index, topics the number of topics whose list it
\* changed, again whether the call was that of a handle called before.
Call(op, removed, topics, again) ==
    [op |-> op, removed |-> removed, topics |-> topics, again |-> again]

\* The call recorded with what it removed.
Observed(op) ==
    last' = Call(op, Registrations(subscribers) - Registrations(subscribers'),
                 TopicsChanged(subscribers, subscribers'), FALSE)

\* The call recorded by its name alone.
Noted(op) == last' = Call(op, 0, 0, FALSE)

\* No closure of subscribe() kept by the caller.
NoHandle == [topic |-> None, cb |-> None, called |-> FALSE]

\* The wake-up timeout of both filters, in seconds: wake_timeout = 30.0
WakeTimeout == 30

\* A filter after construction: is_awake = False, last_wake_time = 0
Asleep == [is_awake |-> FALSE, last_wake_time |-> 0]

\* EventBus(), LifecycleManager(), ReflexController(), SensoryCortex() after
\* construction; the clock reads a time later than the timeout.
\* AudioStream.__init__, inside a running event loop (inLoop) or not.
AudioStream(inLoop) ==
    [loop |-> IF inLoop THEN "loop" ELSE "none",
     is_listening |-> FALSE,
     stream |-> "none",
     is_speech_active |-> FALSE,
     silence_frames_count |-> 0,
     speech_buffer |-> <<>>]

\* No frame delivered yet.
NothingCaptured == [captured |-> 0, voiced |-> 0, first |-> 0, latest |-> 0, opened |-> 0]

\* No call of _process_speech yet.
NoSegment == [count |-> 0, frames |-> <<>>, out |-> "none"]

Init ==
    /\ subscribers = <<>>
    /\ receivers = <<>>
    /\ subscribed = 0
    /\ handle = NoHandle
    /\ tasks = <<>>
    /\ pubs = <<>>
    /\ last = Call("init", 0, 0, FALSE)
    /\ components = <<>>
    /\ is_running = FALSE
    /\ shutdown_event = FALSE
    /\ waiter = "none"
    /\ runs = <<>>
    /\ unregs = <<>>
    /\ torn = <<>>
    /\ now = WakeTimeout
    /\ reflex = Asleep
    /\ cortex = Asleep
    /\ hearings = <<>>
    /\ woke = [at |-> 0, since |-> 0]
    /\ fwd = [at |-> 0, wake_at |-> 0, chain |-> 0]
    /\ ear = AudioStream(TRUE)
    /\ mic = NothingCaptured
    /\ segments = NoSegment
    /\ asr = <<>>
    /\ starts = <<>>

\* EventBus.subscribe(event_name, callback); keep: the caller keeps the
\* returned closure (in place of the one it kept before) instead of dropping it.
subscribe(t, cb, keep) ==
    /\ subscribers' = SubscribeSubs(subscribers, t, cb)
    /\ receivers' = SubscribeRecv(receivers, t, cb)
    /\ subscribed' = subscribed + 1
    /\ handle' = IF keep THEN [topic |-> t, cb |-> cb, called |-> FALSE] ELSE handle
    /\ UNCHANGED <<tasks, pubs>>

\* EventBus.unsubscribe(event_name, callback)
unsubscribe(t, cb) ==
    /\ subscribers' = UnsubscribeSubs(subscribers, t, cb)
    /\ receivers' = UnsubscribeRecv(receivers, t, cb)
    /\ UNCHANGED <<subscribed, handle, tasks, pubs>>

\* A call of the closure the caller kept:
\* self.unsubscribe(event_name, callback)
unsubscribe_handle ==
    /\ handle # NoHandle
    /\ subscribers' = UnsubscribeSubs(subscribers, handle.topic, handle.cb)
    /\ receivers' = UnsubscribeRecv(receivers, handle.topic, handle.cb)
    /\ handle' = [handle EXCEPT !.called = TRUE]
    /\ last' = Call("handle", Registrations(subscribers) - Registrations(subscribers'),
                    TopicsChanged(subscribers, subscribers'), handle.called)
    /\ UNCHANGED <<subscribed, tasks, pubs>>

\* EventBus.unsubscribe_receiver(receiver)
unsubscribe_receiver(o) ==
    LET T == UnsubscribeReceiverTables(subscribers, receivers, o) IN
    /\ subscribers' = T.s
    /\ receivers' = T.r
    /\ UNCHANGED <<subscribed, handle, tasks, pubs>>

\* EventBus.publish(event) with event.name = t, up to its await of gather():
\* with no subscriber it returns at once.
publish(t) ==
    LET callbacks == MatchedCallbacks(subscribers, t)
        p == Len(pubs) + 1
    IN
    /\ subscribers' = PublishSubs(subscribers, t)
    /\ tasks' = tasks \o NewTasks(callbacks, p)
    /\ pubs' = Append(pubs,
            IF callbacks = <<>>
            THEN [topic |-> t, fut |-> "none", pc |-> "returned"]
            ELSE [topic |-> t, fut |-> "pending", pc |-> "await"])
    /\ UNCHANGED <<receivers, subscribed, handle>>

\* The event loop gives the next ready handler task its first step: the
\* callback body starts executing.
StartHandler ==
    LET k == NextToStart(tasks) IN
    /\ k # 0
    /\ tasks' = [tasks EXCEPT ![k].st = "running"]
    /\ UNCHANGED <<subscribers, receivers, subscribed, handle, pubs, last>>

\* Handler task k, started and possibly suspended since, returns or raises;
\* gather's done-callback updates the outer future of its publish.
FinishHandler(k, out) ==
    /\ k \in 1..Len(tasks)
    /\ tasks[k].st = "running"
    /\ tasks' = TasksAfterFinish(tasks, k, out)
    /\ pubs' = [pubs EXCEPT ![tasks[k].pub].fut =
                    GatherFuture(@, tasks', tasks[k].pub, out)]
    /\ UNCHANGED <<subscribers, receivers, subscribed, handle, last>>

\* `await asyncio.gather(*tasks)` resumes: publish returns to its caller, or
\* the exception set on the outer future is raised in the caller.
ResumePublish(p) ==
    /\ p \in 1..Len(pubs)
    /\ pubs[p].pc = "await"
    /\ pubs[p].fut # "pending"
    /\ pubs' = [pubs EXCEPT ![p].pc = IF pubs[p].fut = "exception" THEN "raised" ELSE "returned"]
    /\ UNCHANGED <<subscribers, receivers, subscribed, handle, tasks, last>>

----------------------------------------------------------------------------
\* The subscription tables alone; every call is recorded with what it removed.
NextTables ==
    \/ \E t \in Topics, cb \in Callbacks, keep \in BOOLEAN :
          subscribed < MaxSubscribes /\ subscribe(t, cb, keep) /\ Observed("subscribe")
          /\ UNCHANGED <<lifeVars, reflexVars, earVars>>
    \/ \E t \in Topics, cb \in Callbacks :
          unsubscribe(t, cb) /\ Observed("unsubscribe") /\ UNCHANGED <<lifeVars, reflexVars, earVars>>
    \/ unsubscribe_handle /\ UNCHANGED <<lifeVars, reflexVars, earVars>>
    \/ \E o \in Owners :
          unsubscribe_receiver(o) /\ Observed("unsubscribe_receiver")
          /\ UNCHANGED <<lifeVars, reflexVars, earVars>>

SpecTables == Init /\ [][NextTables]_vars

\* The bus with dispatch on the event loop: the API calls come from any code
\* running on the loop, a started handler included, and are recorded by name.
Next ==
    \/ \E t \in Topics, cb \in Callbacks :
          subscribed + Len(pubs) < MaxCalls /\ subscribe(t, cb, FALSE) /\ Noted("subscribe")
          /\ UNCHANGED <<lifeVars, reflexVars, earVars>>
    \/ \E t \in Topics, cb \in Callbacks :
          unsubscribe(t, cb) /\ Noted("unsubscribe") /\ UNCHANGED <<lifeVars, reflexVars, earVars>>
    \/ \E o \in Owners :
          unsubscribe_receiver(o) /\ Noted("unsubscribe_receiver")
          /\ UNCHANGED <<lifeVars, reflexVars, earVars>>
    \/ \E t \in Topics :
          subscribed + Len(pubs) < MaxCalls /\ publish(t) /\ Noted("publish")
          /\ UNCHANGED <<lifeVars, reflexVars, earVars>>
    \/ StartHandler /\ UNCHANGED <<lifeVars, reflexVars, earVars>>
    \/ \E k \in 1..MaxTasks, out \in {"done", "raised"} :
          FinishHandler(k, out) /\ UNCHANGED <<lifeVars, reflexVars, earVars>>
    \/ \E p \in 1..MaxPublishes : ResumePublish(p) /\ UNCHANGED <<lifeVars, reflexVars, earVars>>

Spec == Init /\ [][Next]_vars

\* A step of the event loop on behalf of a publish.
LoopStep ==
    \/ StartHandler /\ UNCHANGED <<lifeVars, reflexVars, earVars>>
    \/ \E k \in 1..MaxTasks, out \in {"done", "raised"} :
          FinishHandler(k, out) /\ UNCHANGED <<lifeVars, reflexVars, earVars>>
    \/ \E p \in 1..MaxPublishes : ResumePublish(p) /\ UNCHANGED <<lifeVars, reflexVars, earVars>>

\* The event loop keeps running its ready tasks, and every handler
\* terminates: while a handler task can start or end, or a publish can
\* resume, one of them eventually does.
FairSpec == Spec /\ WF_vars(LoopStep)

----------------------------------------------------------------------------
\* Claims about dispatch (Spec, FairSpec)

\* The topic of the publish that created handler task k.
TopicOf(k) == pubs[tasks[k].pub].topic

\* Handler task k has started: its callback body has begun executing.
Started(k) == tasks[k].st # "pending"

\* C1: no callback body starts executing for a (topic, callback) pair after
\* the unsubscribe matching the pair has returned, also when the unsubscribe
\* comes from a handler while a publish on the topic is in flight.  A task
\* exists only for a pair that was registered when its publish ran, so a
\* pair with no entry left in the topic index has had every registration
\* removed by unsubscribe calls that returned, with no subscribe since: no
\* task of such a pair may take its first step.
C1_NoStartAfterUnsubscribe ==
    [][\A k \in 1..MaxTasks :
          (k <= Len(tasks) /\ tasks[k].st = "pending" /\ tasks'[k].st = "running")
              => FirstIndex(Get(subscribers, TopicOf(k)), tasks[k].cb) # 0]_vars

\* C2: publish does not raise to its caller when a handler raises.
C2_PublishNeverRaises ==
    \A p \in 1..Len(pubs) : pubs[p].pc # "raised"

\* C3: when one handler of a publish has raised, every handler task of that
\* publish is still started and runs to completion (given that the loop keeps
\* running and handlers terminate).
C3_SiblingsRunToCompletion ==
    (\E p \in 1..Len(pubs) : pubs[p].fut = "exception")
        ~> (\A k \in 1..Len(tasks) :
                pubs[tasks[k].pub].fut = "exception" => tasks[k].st = "finished")

\* A publish whose first handler raised while its second had not started, and
\* both have finished since.
C3_Witness ==
    \E p \in 1..Len(pubs) :
        /\ pubs[p].pc = "raised"
        /\ Cardinality({k \in 1..Len(tasks) : tasks[k].pub = p}) >= 2
        /\ \A k \in 1..Len(tasks) : tasks[k].pub = p => tasks[k].st = "finished"

\* C4: when publish has returned to its caller (normally or by raising), no
\* handler matched for the event is still pending or running.
C4_PublishReturnsAfterAllHandlers ==
    \A p \in 1..Len(pubs) :
        pubs[p].pc \in {"returned", "raised"}
            => \A k \in 1..Len(tasks) : tasks[k].pub = p => tasks[k].st = "finished"

\* C5: for two publishes on one topic, a callback with a task in both is
\* never started for the later publish while its task for the earlier one
\* has not started.
C5_PublishOrderPerSubscriber ==
    \A j \in 1..Len(tasks), k \in 1..Len(tasks) :
        (/\ tasks[j].pub < tasks[k].pub
         /\ TopicOf(j) = TopicOf(k)
         /\ tasks[j].cb = tasks[k].cb
         /\ Started(k))
            => Started(j)

\* Two publishes on one topic: the handler for the first is suspended, the
\* same handler for the second has started and already finished.
C5_Witness ==
    \E j \in 1..Len(tasks), k \in 1..Len(tasks) :
        /\ tasks[j].pub < tasks[k].pub
        /\ TopicOf(j) = TopicOf(k)
        /\ tasks[j].cb = tasks[k].cb
        /\ tasks[j].st = "running"
        /\ tasks[k].st = "finished"

\* C6: for every publish, each callback is started at most once.
C6_AtMostOncePerEvent ==
    \A j \in 1..Len(tasks), k \in 1..Len(tasks) :
        (j # k /\ tasks[j].pub = tasks[k].pub /\ tasks[j].cb = tasks[k].cb)
            => ~(Started(j) /\ Started(k))

\* C9: publish on a topic with no registered subscriber returns without
\* raising, creates no handler task and leaves both tables unchanged.
C9_PublishNoSubscriberIsNoOp ==
    [][\A t \in Topics :
          (publish(t) /\ t \notin DOMAIN subscribers)
              => /\ UNCHANGED <<subscribers, receivers, tasks>>
                 /\ pubs'[Len(pubs')] = [topic |-> t, fut |-> "none", pc |-> "returned"]]_vars

\* The latest call was a publish that matched no subscriber while the other
\* topic had a registered one.
C9_Witness ==
    /\ last.op = "publish"
    /\ pubs # <<>>
    /\ pubs[Len(pubs)].fut = "none"
    /\ subscribers # <<>>
    /\ tasks = <<>>

----------------------------------------------------------------------------
\* Claims about the subscription tables (SpecTables)

Without(l, o) == SelectSeq(l, LAMBDA c : Receiver(c) # o)

C10_HandleRemovesOnlyItsRegistration ==
    last.op = "handle" => (last.removed <= 1 /\ (last.again => last.removed = 0))

----------------------------------------------------------------------------
\* LifecycleManager (src/src/cradle/core/lifecycle.py)

\* Bounds: the shutdown triggers (system.shutdown events and direct
\* shutdown() calls) and the unregister() calls of a behaviour.
MaxTriggers == 3
MaxUnregisters == 3

\* The objects handed to register(): the components kernel.py registers, and
\* a plain data holder with neither cleanup nor stop.
Components == {"soul", "cortex", "ear", "cfg"}

\* hasattr(component, "cleanup") or hasattr(component, "stop")
HasTeardown(c) == c # "cfg"

\* The elements of list l.
Range(l) == {l[i] : i \in 1..Len(l)}

\* self._components.append(component), for a component with a teardown.
RegisterComponents(l, c) == IF HasTeardown(c) THEN Append(l, c) ELSE l

\* list.pop() in place of list.remove(component)
RemoveLastComponent(l, c) == SubSeq(l, 1, Len(l) - 1)

\* self._components.remove(component): the first equal element goes.
RemoveComponent(l, c) == RemoveAt(l, FirstIndex(l, c))

\* The iterator reversed(self._components) holds an index into the list,
\* starting at its last element and counting down; it is exhausted as soon
\* as the index is not one of the list.
ReversedStart(l) == Len(l)
ReversedHasNext(l, i) == i >= 1 /\ i <= Len(l)

\* iteration in registration order
ForwardItem(l, i) == l[Len(l) + 1 - i]

\* The component the iterator yields at index i.
ReversedItem(l, i) == l[i]

\* A raised teardown ends the loop of shutdown().
TeardownRaisePropagates(out) == out = "returned"

\* `except Exception` around each teardown call: whether it returned or
\* raised, the loop of shutdown() goes on.
LoopContinuesAfter(out) == TRUE

\* the guard of shutdown() left out
ShutdownGuardOpen(running) == TRUE

\* if not self._is_running: return
ShutdownGuard(running) == running

\* A teardown call: component c, called by the activation `by` of shutdown()
\* or unregister(), running or ended (returned, raised).
Teardown(c, by) == [c |-> c, by |-> by, st |-> "running"]

\* The index in torn of the teardown call that activation `by` is awaiting.
Awaited(by) == CHOOSE k \in 1..Len(torn) : torn[k].by = by /\ torn[k].st = "running"

\* register(component)
register(c) ==
    /\ components' = RegisterComponents(components, c)
    /\ UNCHANGED <<is_running, shutdown_event, waiter, runs, unregs, torn>>

\* wait_for_shutdown(): sets _is_running and awaits the event; an event
\* already set does not suspend it.
wait_for_shutdown ==
    /\ is_running' = TRUE
    /\ waiter' = IF shutdown_event THEN "released" ELSE "waiting"
    /\ UNCHANGED <<components, shutdown_event, runs, unregs, torn>>

\* `await self._shutdown_event.wait()` returns once the event is set.
WaiterResume ==
    /\ waiter = "waiting"
    /\ shutdown_event
    /\ waiter' = "released"
    /\ UNCHANGED <<components, is_running, shutdown_event, runs, unregs, torn>>

\* A shutdown trigger: a system.shutdown event published on the bus, which
\* creates the task of the handler _on_shutdown_signal subscribed by
\* __init__, or a direct call of shutdown() about to be made.
trigger(via) ==
    /\ runs' = Append(runs, [via |-> via, pc |-> "scheduled", idx |-> 0, ran |-> FALSE])
    /\ UNCHANGED <<components, is_running, shutdown_event, waiter, unregs, torn>>

\* The loop of shutdown() in activation r asks its iterator, at index i, for
\* the next component, with log the teardown calls so far: it calls the
\* component's teardown and awaits it, or, the iterator exhausted, sets the
\* event and returns.
ShutdownLoop(r, i, log) ==
    IF ReversedHasNext(components, i)
    THEN /\ torn' = Append(log, Teardown(ReversedItem(components, i), <<"shutdown", r>>))
         /\ runs' = [runs EXCEPT ![r] = [@ EXCEPT !.pc = "teardown", !.idx = i - 1, !.ran = TRUE]]
         /\ UNCHANGED shutdown_event
    ELSE /\ torn' = log
         /\ runs' = [runs EXCEPT ![r] = [@ EXCEPT !.pc = "done", !.ran = TRUE]]
         /\ shutdown_event' = TRUE

\* shutdown() in activation r, entered from _on_shutdown_signal or directly,
\* up to its first await: the guard, the flag, the first teardown call.
shutdown(r) ==
    /\ r \in 1..Len(runs)
    /\ runs[r].pc = "scheduled"
    /\ IF ShutdownGuard(is_running)
       THEN /\ is_running' = FALSE
            /\ ShutdownLoop(r, ReversedStart(components), torn)
       ELSE /\ runs' = [runs EXCEPT ![r].pc = "done"]
            /\ UNCHANGED <<is_running, shutdown_event, torn>>
    /\ UNCHANGED <<components, waiter, unregs>>

\* The teardown awaited by activation r of shutdown() returns or raises; the
\* loop goes on to the next component.
TeardownFinish(r, out) ==
    /\ r \in 1..Len(runs)
    /\ runs[r].pc = "teardown"
    /\ LET log == [torn EXCEPT ![Awaited(<<"shutdown", r>>)].st = out] IN
       IF LoopContinuesAfter(out)
       THEN ShutdownLoop(r, runs[r].idx, log)
       ELSE /\ torn' = log
            /\ runs' = [runs EXCEPT ![r].pc = "raised"]
            /\ UNCHANGED shutdown_event
    /\ UNCHANGED <<components, is_running, waiter, unregs>>

\* unregister(component) up to its await of the teardown; a component that
\* is not registered is left alone.
unregister(c) ==
    /\ IF c \in Range(components)
       THEN /\ unregs' = Append(unregs, [c |-> c, pc |-> "teardown"])
            /\ torn' = Append(torn, Teardown(c, <<"unregister", Len(unregs) + 1>>))
       ELSE /\ unregs' = Append(unregs, [c |-> c, pc |-> "done"])
            /\ UNCHANGED torn
    /\ UNCHANGED <<components, is_running, shutdown_event, waiter, runs>>

\* The teardown awaited by activation u of unregister() returns or raises
\* (the exception is caught and logged); the component is removed from the
\* list, and remove() raises ValueError if it is no longer there.
UnregisterFinish(u, out) ==
    /\ u \in 1..Len(unregs)
    /\ unregs[u].pc = "teardown"
    /\ torn' = [torn EXCEPT ![Awaited(<<"unregister", u>>)].st = out]
    /\ IF unregs[u].c \in Range(components)
       THEN /\ components' = RemoveComponent(components, unregs[u].c)
            /\ unregs' = [unregs EXCEPT ![u].pc = "done"]
       ELSE /\ UNCHANGED components
            /\ unregs' = [unregs EXCEPT ![u].pc = "raised"]
    /\ UNCHANGED <<is_running, shutdown_event, waiter, runs>>

\* Boot as in kernel.py (each component registered once, before the waiter
\* starts), then shutdown triggers from the bus and from direct callers.
NextLifecycle ==
    \/ \E c \in Components :
          waiter = "none" /\ c \notin Range(components) /\ register(c)
          /\ UNCHANGED <<busVars, reflexVars, earVars>>
    \/ waiter = "none" /\ wait_for_shutdown /\ UNCHANGED <<busVars, reflexVars, earVars>>
    \/ \E via \in {"event", "call"} :
          Len(runs) < MaxTriggers /\ trigger(via) /\ UNCHANGED <<busVars, reflexVars, earVars>>
    \/ \E r \in 1..MaxTriggers : shutdown(r) /\ UNCHANGED <<busVars, reflexVars, earVars>>
    \/ \E r \in 1..MaxTriggers, out \in {"returned", "raised"} :
          TeardownFinish(r, out) /\ UNCHANGED <<busVars, reflexVars, earVars>>
    \/ WaiterResume /\ UNCHANGED <<busVars, reflexVars, earVars>>

SpecLifecycle == Init /\ [][NextLifecycle]_vars

\* Components registered and unregistered out of band while the system runs.
NextUnregister ==
    \/ \E c \in Components :
          c \notin Range(components) /\ register(c) /\ UNCHANGED <<busVars, reflexVars, earVars>>
    \/ \E c \in Components :
          Len(unregs) < MaxUnregisters /\ unregister(c) /\ UNCHANGED <<busVars, reflexVars, earVars>>
    \/ \E u \in 1..MaxUnregisters, out \in {"returned", "raised"} :
          UnregisterFinish(u, out) /\ UNCHANGED <<busVars, reflexVars, earVars>>

SpecUnregister == Init /\ [][NextUnregister]_vars

----------------------------------------------------------------------------
\* Claims about shutdown (SpecLifecycle)

\* The components whose teardown has been called, in call order.
TornComponents == [k \in 1..Len(torn) |-> torn[k].c]

\* shutdown() in activation r went past its guard and has returned.
ShutdownReturned(r) == runs[r].ran /\ runs[r].pc \in {"done", "raised"}

\* C11: shutdown() calls the teardowns of the registered components in the
\* exact reverse of the registration order, one at a time: a teardown is
\* called only when every earlier one has returned or raised, and when
\* shutdown() has returned every registered component has been torn down.
C11_ReverseOrderOneAtATime ==
    /\ Len(torn) <= Len(components)
    /\ \A k \in 1..Len(torn) :
          /\ torn[k].c = components[Len(components) + 1 - k]
          /\ torn[k].st = "running" => k = Len(torn)
    /\ \A r \in 1..Len(runs) : ShutdownReturned(r) => Len(torn) = Len(components)

\* Three components were registered and shutdown() has torn all three down
\* and returned.
C11_Witness ==
    /\ Len(components) = 3
    /\ Len(torn) = 3
    /\ \A k \in 1..3 : torn[k].st = "returned"
    /\ \E r \in 1..Len(runs) : ShutdownReturned(r)

\* C12: when a teardown raised during shutdown, the teardowns of all the
\* remaining components have still been called, in order, by the time
\* shutdown() returns, and the event the waiter waits for is set.
C12_RaisedTeardownIsolated ==
    \A r \in 1..Len(runs) :
        (ShutdownReturned(r) /\ \E k \in 1..Len(torn) : torn[k].st = "raised")
            => /\ shutdown_event
               /\ TornComponents = [k \in 1..Len(components) |->
                                       components[Len(components) + 1 - k]]

\* The first of three teardowns raised, the other two were called after it,
\* and the waiter has been released.
C12_Witness ==
    /\ Len(components) = 3
    /\ Len(torn) = 3
    /\ torn[1].st = "raised"
    /\ torn[3].st = "returned"
    /\ waiter = "released"

\* C13: whatever shutdown triggers arrive, events or direct calls, also
\* while teardown is in progress, at most one activation of shutdown() goes
\* past the guard, no component is torn down twice, and once that activation
\* has returned every registered component has been torn down exactly once.
C13_TeardownRunsOnce ==
    /\ Cardinality({r \in 1..Len(runs) : runs[r].ran}) <= 1
    /\ \A c \in Components : Count(TornComponents, c) <= 1
    /\ \A r \in 1..Len(runs) :
          ShutdownReturned(r) => \A c \in Range(components) : Count(TornComponents, c) = 1

\* A later trigger, an event, was handled as a no-op while the teardown
\* started by an earlier trigger was still in progress.
C13_Witness ==
    \E r1 \in 1..Len(runs), r2 \in 1..Len(runs) :
        /\ r1 < r2
        /\ runs[r1].pc = "teardown"
        /\ Len(torn) = 2
        /\ runs[r2].via = "event"
        /\ runs[r2].pc = "done"
        /\ ~runs[r2].ran
        /\ waiter = "waiting"

\* C14: once a system.shutdown event has been published and every trigger
\* has been handled to its end, every registered component has been torn
\* down and the event that releases the waiter is set, whether the event
\* came before or after wait_for_shutdown() started.
C14_EveryShutdownEventTearsDown ==
    ((\E r \in 1..Len(runs) : runs[r].via = "event")
        /\ \A r \in 1..Len(runs) : runs[r].pc \in {"done", "raised"})
        => /\ shutdown_event
           /\ \A c \in Range(components) : Count(TornComponents, c) >= 1

----------------------------------------------------------------------------
\* Claims about unregister (SpecUnregister)

\* C15: unregister(c) of a registered component calls the teardown of c,
\* once, and of no other component, and then removes c from the registry,
\* leaving the others registered in their order; unregister of a component
\* that is not registered does nothing.
C15_UnregisterFrame ==
    [][/\ \A c \in Components :
             unregister(c)
                 => /\ components' = components
                    /\ torn' = IF c \in Range(components)
                               THEN Append(torn, Teardown(c, <<"unregister", Len(unregs) + 1>>))
                               ELSE torn
       /\ \A u \in 1..MaxUnregisters, out \in {"returned", "raised"} :
             UnregisterFinish(u, out)
                 => /\ components' = SelectSeq(components, LAMBDA x : x # unregs[u].c)
                    /\ TornComponents' = TornComponents
                    /\ Cardinality({k \in 1..Len(torn) : torn'[k] # torn[k]}) = 1]_vars

\* One unregister() has torn down and removed one of three registered
\* components; the other two are still registered.
C15_Witness ==
    /\ Len(unregs) = 1
    /\ Len(components) = 2
    /\ Range(components) \cup {unregs[1].c} = {"soul", "cortex", "ear"}
    /\ \E u \in 1..Len(unregs) :
          /\ unregs[u].pc = "done"
          /\ unregs[u].c \notin Range(components)
          /\ \E k \in 1..Len(torn) :
                torn[k] = [c |-> unregs[u].c, by |-> <<"unregister", u>>, st |-> "returned"]
    /\ Len(torn) = 1

----------------------------------------------------------------------------
\* ReflexController (src/src/cradle/selrena/synapse/reflex.py) and
\* SensoryCortex (src/src/cradle/selrena/synapse/sensory_cortex.py)

\* Bound: the transcriptions published in a behaviour.
MaxHearings == 3

\* Bound: the transcriptions with a handler in flight at one time.
MaxInFlight == 2

\* With both filters subscribed a transcription starts two handlers: one
\* transcription fewer, and one fewer in flight.
MaxHearingsBoth == MaxHearings - 1
MaxInFlightBoth == MaxInFlight - 1

\* A transcription by what the two handlers test in its text: empty text; a
\* stop keyword in it (substring match); a shutdown keyword; a wake keyword
\* of ReflexController; a wake keyword of SensoryCortex, whose list has the
\* keywords of ReflexController and one more.
Utterances ==
    {u \in [empty : BOOLEAN, stop : BOOLEAN, exit : BOOLEAN, wake : BOOLEAN, cwake : BOOLEAN] :
        /\ u.empty => ~(u.stop \/ u.exit \/ u.wake \/ u.cwake)
        /\ u.wake => u.cwake}

\* The seconds between two transcriptions.
Ticks == {2, WakeTimeout - 1}

\* The subscribers of perception.audio.transcription.
Filters == {"reflex", "cortex"}

\* An event handed to publish(): its name and the value its payload carries.
Event(name, val) == [name |-> name, val |-> val]

\* The input.user_message event SensoryCortex builds at time t for the
\* transcription text of utterance u: the text as received, the time the
\* handler has read, and the fixed source tags.
UserMessage(u, t) ==
    [name |-> "input.user_message",
     val |-> [text |-> u, timestamp |-> t, source |-> "audio"],
     source |-> "SensoryCortex"]

\* The number of events named name in the list evs.
Published(evs, name) == Cardinality({k \in 1..Len(evs) : evs[k].name = name})

\* the timer is refreshed by every utterance heard while awake
ReflexRefreshAlways(r, u, t) ==
    IF u.wake \/ (t - r.last_wake_time) < WakeTimeout
    THEN [is_awake |-> TRUE, last_wake_time |-> t]
    ELSE [is_awake |-> FALSE, last_wake_time |-> r.last_wake_time]

\* ReflexController, step 3 at time t: a wake keyword sets last_wake_time;
\* awake iff the time since last_wake_time is below the timeout.
ReflexArousal(r, u, t) ==
    LET lw == IF u.wake THEN t ELSE r.last_wake_time IN
    [is_awake |-> (t - lw) < WakeTimeout, last_wake_time |-> lw]

\* the timer is refreshed by a wake keyword only, as in ReflexController
CortexRefreshOnWake(c, u, t) ==
    LET lw == IF u.cwake THEN t ELSE c.last_wake_time IN
    [is_awake |-> (t - lw) < WakeTimeout, last_wake_time |-> lw]

\* SensoryCortex at time t: a wake keyword, or an utterance within the
\* timeout, makes it awake and refreshes last_wake_time; else not awake.
CortexAttention(c, u, t) ==
    IF u.cwake \/ (t - c.last_wake_time) < WakeTimeout
    THEN [is_awake |-> TRUE, last_wake_time |-> t]
    ELSE [is_awake |-> FALSE, last_wake_time |-> c.last_wake_time]

\* the timeout test left out
ShouldProcessNoTimeout(c, u, t) == u.cwake \/ t >= c.last_wake_time

\* should_process of SensoryCortex.on_audio_transcription
ShouldProcess(c, u, t) == u.cwake \/ (t - c.last_wake_time) < WakeTimeout

\* A handler that is not in flight: never scheduled, returned, or ended by an
\* exception.
Ended(pc) == pc \in {"none", "done", "raised"}

\* The record of a transcription none of whose handlers is in flight.
Handled ==
    [u |-> [empty |-> TRUE, stop |-> FALSE, exit |-> FALSE, wake |-> FALSE, cwake |-> FALSE],
     t |-> 0, rpc |-> "done", cpc |-> "done", r0 |-> FALSE, c0 |-> FALSE,
     revents |-> <<>>, cevents |-> <<>>]

\* The record rec of a transcription, kept while a handler is in flight.
InFlight(rec) == IF Ended(rec.rpc) /\ Ended(rec.cpc) THEN Handled ELSE rec

\* The transcriptions with a handler in flight.
Busy == {h \in 1..Len(hearings) : hearings[h] # Handled}

\* publish() creates the task of ReflexController's handler and then that of
\* SensoryCortex's (the order of their subscriptions), and the loop starts
\* tasks in the order of their creation: once the first has started and
\* reached an await or its end, the second starts before anything else runs.
CortexPending ==
    \E h \in 1..Len(hearings) : hearings[h].rpc # "scheduled" /\ hearings[h].cpc = "scheduled"

\* A transcription event is built and published at time now + d (its
\* timestamp), with subs the filters subscribed: the bus creates the tasks
\* of their handlers, in subscription order.
Hear(u, d, subs) ==
    /\ ~CortexPending
    /\ now' = now + d
    /\ hearings' = Append(hearings,
            InFlight([u |-> u, t |-> now + d,
                      rpc |-> IF "reflex" \in subs THEN "scheduled" ELSE "none",
                      cpc |-> IF "cortex" \in subs THEN "scheduled" ELSE "none",
                      r0 |-> FALSE, c0 |-> FALSE, revents |-> <<>>, cevents |-> <<>>]))
    /\ UNCHANGED <<reflex, cortex, woke, fwd>>

\* a transcription is handled when the handlers of the earlier ones have
\* ended
ReflexEarlierEnded(h) ==
    \A g \in 1..(h - 1) : Ended(hearings[g].rpc) /\ Ended(hearings[g].cpc)

\* The handler tasks start in the order the bus created them: those of one
\* subscriber in the order of the transcriptions.
ReflexEarlierStarted(h) == \A g \in 1..(h - 1) : hearings[g].rpc # "scheduled"
CortexEarlierStarted(h) == \A g \in 1..(h - 1) : hearings[g].cpc # "scheduled"

\* ReflexController.on_audio_transcription from step 3 on, for hearing h
\* with record rec: the arousal step, and the publish of state.arousal.
ReflexStep3(h, rec) ==
    LET after == ReflexArousal(reflex, rec.u, now) IN
    /\ reflex' = after
    /\ woke' = IF rec.u.wake THEN [at |-> now, since |-> 0]
               ELSE [woke EXCEPT !.since = @ + 1]
    /\ hearings' = [hearings EXCEPT ![h] =
            [rec EXCEPT !.rpc = "arousal",
                        !.revents = Append(@, Event("state.arousal", after.is_awake))]]

\* ReflexController.on_audio_transcription from step 2 on: a shutdown
\* keyword publishes system.shutdown, after which the handler returns.
ReflexStep2(h, rec) ==
    IF rec.u.exit
    THEN /\ hearings' = [hearings EXCEPT ![h] =
                [rec EXCEPT !.rpc = "exit",
                            !.revents = Append(@, Event("system.shutdown", "voice_command"))]]
         /\ UNCHANGED <<reflex, woke>>
    ELSE ReflexStep3(h, rec)

\* The handler of ReflexController starts: empty text returns; a stop
\* keyword publishes signal.reflex MUTE and awaits the publish.
ReflexStart(h) ==
    /\ h \in 1..Len(hearings)
    /\ hearings[h].rpc = "scheduled"
    /\ ReflexEarlierStarted(h)
    /\ ~CortexPending
    /\ LET rec == [hearings[h] EXCEPT !.r0 = reflex.is_awake] IN
       IF rec.u.empty
       THEN /\ hearings' = [hearings EXCEPT ![h] = InFlight([rec EXCEPT !.rpc = "done"])]
            /\ UNCHANGED <<reflex, woke>>
       ELSE IF rec.u.stop
       THEN /\ hearings' = [hearings EXCEPT ![h] =
                   [rec EXCEPT !.rpc = "mute",
                               !.revents = Append(@, Event("signal.reflex", "mute"))]]
            /\ UNCHANGED <<reflex, woke>>
       ELSE ReflexStep2(h, rec)
    /\ UNCHANGED <<now, cortex, fwd>>

\* SensoryCortex takes over the is_awake of the state.arousal event
OnArousalStateSync(c, event) == [c EXCEPT !.is_awake = event.val]

\* SensoryCortex.on_arousal_state on a state.arousal event: pass.
OnArousalState(c, event) == c

\* A publish awaited by the handler of ReflexController returns, or raises
\* the exception of a handler of one of the event's subscribers, which ends
\* the handler of ReflexController. By then the subscribers of the event
\* have handled it: SensoryCortex, if subscribed, the state.arousal event.
ReflexResume(h, out) ==
    /\ h \in 1..Len(hearings)
    /\ hearings[h].rpc \in {"mute", "exit", "arousal"}
    /\ ~CortexPending
    /\ IF out = "raised"
       THEN /\ hearings' = [hearings EXCEPT ![h] = InFlight([@ EXCEPT !.rpc = "raised"])]
            /\ UNCHANGED <<reflex, woke>>
       ELSE IF hearings[h].rpc = "mute"
       THEN ReflexStep2(h, hearings[h])
       ELSE /\ hearings' = [hearings EXCEPT ![h] = InFlight([@ EXCEPT !.rpc = "done"])]
            /\ UNCHANGED <<reflex, woke>>
    /\ cortex' = IF hearings[h].rpc = "arousal" /\ hearings[h].cpc # "none"
                 THEN OnArousalState(cortex, hearings[h].revents[Len(hearings[h].revents)])
                 ELSE cortex
    /\ UNCHANGED <<now, fwd>>

\* The handler of SensoryCortex starts: empty text returns; otherwise the
\* attention filter, and the publish of input.user_message if it lets the
\* text through.
CortexStart(h) ==
    /\ h \in 1..Len(hearings)
    /\ hearings[h].cpc = "scheduled"
    /\ hearings[h].rpc # "scheduled"
    /\ CortexEarlierStarted(h)
    /\ LET rec == [hearings[h] EXCEPT !.c0 = cortex.is_awake] IN
       IF rec.u.empty
       THEN /\ hearings' = [hearings EXCEPT ![h] = InFlight([rec EXCEPT !.cpc = "done"])]
            /\ UNCHANGED <<cortex, fwd>>
       ELSE /\ cortex' = CortexAttention(cortex, rec.u, now)
            /\ IF ShouldProcess(cortex, rec.u, now)
               THEN /\ hearings' = [hearings EXCEPT ![h] =
                          [rec EXCEPT !.cpc = "forward",
                                      !.cevents = Append(@, UserMessage(rec.u, now))]]
                    /\ fwd' = IF rec.u.cwake
                              THEN [at |-> now, wake_at |-> now, chain |-> 0]
                              ELSE [fwd EXCEPT !.at = now, !.chain = @ + 1]
               ELSE /\ hearings' = [hearings EXCEPT ![h] = InFlight([rec EXCEPT !.cpc = "done"])]
                    /\ UNCHANGED fwd
    /\ UNCHANGED <<now, reflex, woke>>

\* The publish awaited by the handler of SensoryCortex returns or raises.
CortexResume(h, out) ==
    /\ h \in 1..Len(hearings)
    /\ hearings[h].cpc = "forward"
    /\ ~CortexPending
    /\ hearings' = [hearings EXCEPT ![h] =
            InFlight([@ EXCEPT !.cpc = IF out = "raised" THEN "raised" ELSE "done"])]
    /\ UNCHANGED <<now, reflex, cortex, woke, fwd>>

\* Time passes between the publish of a transcription and the start of the
\* handler task of SensoryCortex.
Elapse ==
    /\ \E h \in 1..Len(hearings) : hearings[h].cpc = "scheduled" /\ hearings[h].t = now
    /\ now' = now + 1
    /\ UNCHANGED <<reflex, cortex, hearings, woke, fwd>>

\* ReflexController alone subscribed, on transcriptions told apart by its
\* own keywords.
NextReflex ==
    \/ \E u \in Utterances, d \in Ticks :
          /\ Len(hearings) < MaxHearings /\ Cardinality(Busy) < MaxInFlight
          /\ u.cwake = u.wake /\ Hear(u, d, {"reflex"})
          /\ UNCHANGED <<busVars, lifeVars, earVars>>
    \/ \E h \in 1..MaxHearings : ReflexStart(h) /\ UNCHANGED <<busVars, lifeVars, earVars>>
    \/ \E h \in 1..MaxHearings, out \in {"returned", "raised"} :
          ReflexResume(h, out) /\ UNCHANGED <<busVars, lifeVars, earVars>>

SpecReflex == Init /\ [][NextReflex]_vars

\* SensoryCortex alone subscribed, on transcriptions told apart by its own
\* keywords.
NextCortex ==
    \/ \E u \in Utterances, d \in Ticks :
          /\ Len(hearings) < MaxHearings /\ Cardinality(Busy) < MaxInFlight
          /\ u.cwake = u.wake /\ Hear(u, d, {"cortex"})
          /\ UNCHANGED <<busVars, lifeVars, earVars>>
    \/ Elapse /\ UNCHANGED <<busVars, lifeVars, earVars>>
    \/ \E h \in 1..MaxHearings : CortexStart(h) /\ UNCHANGED <<busVars, lifeVars, earVars>>
    \/ \E h \in 1..MaxHearings, out \in {"returned", "raised"} :
          CortexResume(h, out) /\ UNCHANGED <<busVars, lifeVars, earVars>>

SpecCortex == Init /\ [][NextCortex]_vars

\* Both filters subscribed, as after the boot of kernel.py.
NextFilters ==
    \/ \E u \in Utterances, d \in Ticks :
          /\ Len(hearings) < MaxHearingsBoth /\ Cardinality(Busy) < MaxInFlightBoth
          /\ Hear(u, d, Filters)
          /\ UNCHANGED <<busVars, lifeVars, earVars>>
    \/ \E h \in 1..MaxHearings : ReflexStart(h) /\ UNCHANGED <<busVars, lifeVars, earVars>>
    \/ \E h \in 1..MaxHearings, out \in {"returned", "raised"} :
          ReflexResume(h, out) /\ UNCHANGED <<busVars, lifeVars, earVars>>
    \/ \E h \in 1..MaxHearings : CortexStart(h) /\ UNCHANGED <<busVars, lifeVars, earVars>>
    \/ \E h \in 1..MaxHearings, out \in {"returned", "raised"} :
          CortexResume(h, out) /\ UNCHANGED <<busVars, lifeVars, earVars>>

SpecFilters == Init /\ [][NextFilters]_vars

\* The names of the events in evs, in order.
EventNames(evs) == [k \in 1..Len(evs) |-> evs[k].name]

\* The handler of ReflexController for hearing h ends in this step.
ReflexEnds(h) == ~Ended(hearings[h].rpc) /\ Ended(hearings'[h].rpc)

\* C16: for an utterance with both a stop keyword and a shutdown keyword
\* (with or without a wake keyword), the handler of ReflexController has,
\* when it ends, published exactly one signal.reflex MUTE and then exactly
\* one system.shutdown and no state.arousal, and none of its steps changes
\* is_awake or last_wake_time.
C16_StopAndShutdown ==
    [][\A h \in 1..Len(hearings) :
          (hearings[h].u.stop /\ hearings[h].u.exit) =>
             /\ hearings'[h] # hearings[h] => reflex' = reflex
             /\ ReflexEnds(h) =>
                   /\ EventNames(hearings[h].revents) = <<"signal.reflex", "system.shutdown">>
                   /\ hearings[h].revents[1].val = "mute"]_vars

\* C17: an utterance with both a stop keyword and a shutdown keyword is
\* never published as input.user_message, whatever the arousal state of
\* SensoryCortex when it arrives.
C17_NoEscalationOfShutdown ==
    \A h \in 1..Len(hearings) :
        (hearings[h].u.stop /\ hearings[h].u.exit) =>
            Published(hearings[h].cevents, "input.user_message") = 0

\* The handler of ReflexController for hearing h evaluates the arousal step
\* (step 3) in this step.
ReflexEvaluates(h) ==
    hearings[h].rpc \in {"scheduled", "mute"} /\ hearings'[h].rpc = "arousal"

\* C18: once ReflexController has evaluated an utterance with a wake keyword
\* at time woke.at, an utterance without wake keyword evaluated at time now
\* is classified awake if now - woke.at is below the timeout and not awake
\* if it is above, however many utterances without wake keyword were
\* evaluated in between: last_wake_time is still woke.at.
C18_TimeoutFromLastWakeWord ==
    [][\A h \in 1..Len(hearings) :
          (ReflexEvaluates(h) /\ ~hearings[h].u.wake /\ woke.at # 0) =>
             /\ (now - woke.at < WakeTimeout) => reflex'.is_awake
             /\ (now - woke.at > WakeTimeout) => ~reflex'.is_awake
             /\ reflex'.last_wake_time = woke.at]_vars

\* An utterance without wake keyword has been classified not awake more than
\* the timeout after the wake keyword, another such utterance having been
\* evaluated in between.
C18_Witness ==
    LET h == Len(hearings) IN
    /\ h >= 1
    /\ hearings[h].rpc = "arousal"
    /\ ~hearings[h].u.wake
    /\ woke.at # 0
    /\ woke.since >= 2
    /\ now - woke.at > WakeTimeout
    /\ ~reflex.is_awake
    /\ hearings[h].revents[Len(hearings[h].revents)] = Event("state.arousal", FALSE)

\* Hearing h is of an utterance with a stop keyword, no shutdown keyword and
\* no wake keyword of either component, both handlers have started, and
\* neither component was awake when its handler started.
StopOnlyWhileAsleep(h) ==
    /\ hearings[h].u.stop
    /\ ~hearings[h].u.exit
    /\ ~hearings[h].u.wake /\ ~hearings[h].u.cwake
    /\ hearings[h].rpc # "scheduled" /\ hearings[h].cpc # "scheduled"
    /\ ~hearings[h].r0 /\ ~hearings[h].c0

\* C19 as stated: for an utterance with a stop keyword, no wake keyword and
\* no shutdown keyword, arriving while neither component is awake, the only
\* event ReflexController publishes is one signal.reflex MUTE, and
\* SensoryCortex publishes no input.user_message.
C19_OnlyMute ==
    \A h \in 1..Len(hearings) :
        StopOnlyWhileAsleep(h) =>
            /\ hearings[h].revents = <<Event("signal.reflex", "mute")>>
            /\ hearings[h].cevents = <<>>

\* C19 amended: for such an utterance ReflexController publishes one
\* signal.reflex MUTE and, once that publish has returned, one
\* state.arousal, and nothing else; SensoryCortex publishes no
\* input.user_message.
C19_MuteThenArousal ==
    \A h \in 1..Len(hearings) :
        StopOnlyWhileAsleep(h) =>
            /\ Len(hearings[h].revents) \in {1, 2}
            /\ hearings[h].revents[1] = Event("signal.reflex", "mute")
            /\ Len(hearings[h].revents) = 2 <=> hearings[h].rpc = "arousal"
            /\ Len(hearings[h].revents) = 2 => hearings[h].revents[2].name = "state.arousal"
            /\ hearings[h].cevents = <<>>

\* Such an utterance has been handled by both components: MUTE and then
\* state.arousal (not awake) published, nothing forwarded.
C19_Witness ==
    \E h \in 1..Len(hearings) :
        /\ StopOnlyWhileAsleep(h)
        /\ hearings[h].rpc = "arousal"
        /\ hearings[h].cpc = "done"
        /\ hearings[h].revents = <<Event("signal.reflex", "mute"), Event("state.arousal", FALSE)>>
        /\ hearings[h].cevents = <<>>
        /\ ~reflex.is_awake /\ ~cortex.is_awake

\* C20: for every transcription with non-empty text and no shutdown
\* keyword, the handler of ReflexController has published exactly one
\* state.arousal when it ends, whether or not is_awake changed, and the event
\* carries the is_awake the controller has after evaluating the utterance.
C20_OneArousalPerUtterance ==
    [][\A h \in 1..Len(hearings) :
          (~hearings[h].u.empty /\ ~hearings[h].u.exit) =>
             /\ ReflexEvaluates(h) =>
                   hearings'[h].revents[Len(hearings'[h].revents)]
                      = Event("state.arousal", reflex'.is_awake)
             /\ ReflexEnds(h) =>
                   Published(hearings[h].revents, "state.arousal") = 1]_vars

\* The handler of SensoryCortex for hearing h runs its attention filter in
\* this step.
CortexEvaluates(h) ==
    /\ hearings[h].cpc = "scheduled" /\ hearings'[h].cpc # "scheduled"
    /\ ~hearings[h].u.empty

\* C21: SensoryCortex forwards an utterance iff it has a wake keyword or is
\* handled less than the timeout after the previous forwarded utterance;
\* every forwarded utterance makes it awake and sets last_wake_time to its
\* time; an utterance that is not forwarded makes it not awake and leaves
\* last_wake_time alone.
C21_ForwardIffWakeOrWithinWindow ==
    [][\A h \in 1..Len(hearings) :
          CortexEvaluates(h) =>
             LET inWindow == fwd.at # 0 /\ now - fwd.at < WakeTimeout
                 forwards == hearings'[h].cpc = "forward"
             IN /\ forwards <=> (hearings[h].u.cwake \/ inWindow)
                /\ forwards <=> Published(hearings'[h].cevents, "input.user_message") = 1
                /\ forwards => cortex'.is_awake /\ cortex'.last_wake_time = now
                /\ ~forwards => /\ ~cortex'.is_awake
                                /\ cortex'.last_wake_time = cortex.last_wake_time
                                /\ hearings'[h].cevents = hearings[h].cevents]_vars

\* A chain of utterances each less than the timeout after the one before
\* has kept SensoryCortex awake past the timeout since the wake keyword:
\* the latest, without wake keyword, is being forwarded.
C21_Witness ==
    LET h == Len(hearings) IN
    /\ h >= 1
    /\ hearings[h].cpc = "forward"
    /\ ~hearings[h].u.cwake
    /\ fwd.chain >= 2
    /\ fwd.at = now
    /\ now - fwd.wake_at > WakeTimeout
    /\ cortex = [is_awake |-> TRUE, last_wake_time |-> now]

\* C22: every input.user_message SensoryCortex publishes carries the text
\* of the transcription it forwards, unmodified, the timestamp of that
\* transcription event, and SensoryCortex as the event source.
C22_ForwardCarriesTextAndTimestamp ==
    \A h \in 1..Len(hearings) :
        \A k \in 1..Len(hearings[h].cevents) :
            /\ hearings[h].cevents[k].val.text = hearings[h].u
            /\ hearings[h].cevents[k].val.timestamp = hearings[h].t
            /\ hearings[h].cevents[k].source = "SensoryCortex"

\* The handler of SensoryCortex for hearing h ends in this step.
CortexEnds(h) == ~Ended(hearings[h].cpc) /\ Ended(hearings'[h].cpc)

\* C23: for an utterance with a wake keyword of both components and no
\* shutdown keyword, whatever the arousal before: the handler of
\* ReflexController leaves is_awake true and has, when it ends, published
\* one state.arousal, carrying true; the handler of SensoryCortex has, when
\* it ends, published exactly one input.user_message, with the utterance
\* text and payload source 'audio'.
C23_WakeWordEndToEnd ==
    [][\A h \in 1..Len(hearings) :
          (hearings[h].u.wake /\ ~hearings[h].u.exit) =>
             /\ ReflexEvaluates(h) => reflex'.is_awake
             /\ ReflexEnds(h) =>
                   /\ Published(hearings[h].revents, "state.arousal") = 1
                   /\ hearings[h].revents[Len(hearings[h].revents)]
                         = Event("state.arousal", TRUE)
             /\ CortexEnds(h) =>
                   /\ Len(hearings[h].cevents) = 1
                   /\ hearings[h].cevents[1].name = "input.user_message"
                   /\ hearings[h].cevents[1].val.text = hearings[h].u
                   /\ hearings[h].cevents[1].val.source = "audio"]_vars

\* AudioStream (src/src/cradle/selrena/vessel/perception/audio/stream.py)

\* Bounds: the frames delivered, the frames among them the VAD takes for
\* speech, the calls of start().
MaxFrames == 44
MaxVoiced == 2
MaxStarts == 2

SampleRate == 16000
FrameDurationMs == 30
FrameSize == (SampleRate * FrameDurationMs) \div 1000
BytesPerSample == 2
FrameBytes == FrameSize * BytesPerSample
MaxSilenceFrames == 20
MinSegmentBytes == 9600

\* A frame by what the callback computes from it: silence (no speech for the
\* VAD, amplitude about 100), speech (amplitude about 8000), or noise that
\* the VAD takes for speech (amplitude about 500).
FrameKinds == {"silence", "speech", "noise"}

\* vad.is_speech on a frame
IsSpeech(kind) == kind # "silence"

\* The mean of the squared samples of a frame, in units of 10000.
MeanSquare(kind) ==
    CASE kind = "silence" -> 1
      [] kind = "noise" -> 25
      [] kind = "speech" -> 6400

\* 800 squared, in the same units.
RmsFloorSquare == 64

RECURSIVE SumSquares(_)
SumSquares(frames) ==
    IF frames = <<>> THEN 0
    ELSE MeanSquare(Head(frames).kind) + SumSquares(Tail(frames))

\* rms < 800, for frames of equal length: the mean of the frame means is
\* below 800 squared.
TooQuiet(frames) == SumSquares(frames) < RmsFloorSquare * Len(frames)

\* the handoff calls the coroutine on the thread of the callback
CallInline(queue, seg) ==
    Append(queue, [seg |-> seg, pc |-> "submitted", thread |-> "capture",
                   calls |-> 0, rthread |-> "none", pthread |-> "none",
                   res |-> "none", text |-> <<>>])

\* asyncio.run_coroutine_threadsafe: the coroutine is queued to run on the
\* thread of the loop; the future it returns is dropped.
RunCoroutineThreadsafe(queue, seg) ==
    Append(queue, [seg |-> seg, pc |-> "submitted", thread |-> "loop",
                   calls |-> 0, rthread |-> "none", pthread |-> "none",
                   res |-> "none", text |-> <<>>])

\* the gates of _process_speech without the energy gate
ProcessSpeechNoRms(frames, loop) ==
    IF Len(frames) * FrameBytes < MinSegmentBytes THEN "short"
    ELSE IF loop = "none" THEN "noloop"
    ELSE "submitted"

\* _process_speech on the frames of a segment: the outcome of its gates.
ProcessSpeech(frames, loop) ==
    IF Len(frames) * FrameBytes < MinSegmentBytes THEN "short"
    ELSE IF TooQuiet(frames) THEN "quiet"
    ELSE IF loop = "none" THEN "noloop"
    ELSE "submitted"

\* the segment ends on the 20th non-speech frame
EndOfSpeechAtLimit(count) == count >= MaxSilenceFrames

\* The test of line 104 on the silence_frames_count just incremented.
EndOfSpeech(count) == count > MaxSilenceFrames

\* _audio_callback on a frame of the given kind, on the capture thread.
AudioCallback(kind) ==
    /\ ear.stream = "running"
    /\ LET n == mic.captured + 1
           frame == [n |-> n, kind |-> kind]
       IN
       IF IsSpeech(kind)
       THEN /\ ear' = [ear EXCEPT !.is_speech_active = TRUE,
                                  !.silence_frames_count = 0,
                                  !.speech_buffer = Append(@, frame)]
            /\ mic' = [mic EXCEPT !.captured = n, !.voiced = @ + 1,
                                  !.first = IF @ = 0 THEN n ELSE @,
                                  !.latest = n]
            /\ UNCHANGED <<segments, asr>>
       ELSE IF ear.is_speech_active
       THEN LET buffer == Append(ear.speech_buffer, frame)
                count == ear.silence_frames_count + 1
            IN
            IF EndOfSpeech(count)
            THEN LET out == ProcessSpeech(buffer, ear.loop) IN
                 /\ ear' = [ear EXCEPT !.is_speech_active = FALSE,
                                       !.speech_buffer = <<>>,
                                       !.silence_frames_count = 0]
                 /\ segments' = [count |-> segments.count + 1, frames |-> buffer, out |-> out]
                 /\ asr' = IF out = "submitted"
                           THEN RunCoroutineThreadsafe(asr, segments.count + 1)
                           ELSE asr
                 /\ mic' = [mic EXCEPT !.captured = n, !.first = 0, !.latest = 0]
            ELSE /\ ear' = [ear EXCEPT !.silence_frames_count = count,
                                       !.speech_buffer = buffer]
                 /\ mic' = [mic EXCEPT !.captured = n]
                 /\ UNCHANGED <<segments, asr>>
       ELSE /\ mic' = [mic EXCEPT !.captured = n]
            /\ UNCHANGED <<ear, segments, asr>>
    /\ UNCHANGED starts

\* start() up to its first await, with dev what the device does: the try of
\* lines 201-222 logs a failure to open or to start the device and start()
\* returns.
StartOutcome(dev) == IF dev = "ok" THEN "sleeping" ELSE "returned"

\* self.stream after the try of start(): no assignment if InputStream()
\* fails, an idle stream if its start() fails.
StreamAfterStart(stream, dev) ==
    CASE dev = "ok" -> "running"
      [] dev = "start_fails" -> "idle"
      [] dev = "open_fails" -> stream

\* start(), called directly or through listen_loop(), which first sets
\* self.loop.
start(via, dev) ==
    /\ LET e == IF via = "listen_loop" THEN [ear EXCEPT !.loop = "loop"] ELSE ear IN
       IF ear.is_listening
       THEN /\ ear' = e
            /\ starts' = Append(starts, [via |-> via, dev |-> "unused", pc |-> "returned"])
            /\ UNCHANGED mic
       ELSE /\ ear' = [e EXCEPT !.stream = StreamAfterStart(@, dev),
                                !.is_listening = (dev = "ok")]
            /\ starts' = Append(starts, [via |-> via, dev |-> dev, pc |-> StartOutcome(dev)])
            /\ mic' = IF dev = "ok" THEN [mic EXCEPT !.opened = mic.captured] ELSE mic
    /\ UNCHANGED <<segments, asr>>

\* The loop of start() (lines 216-217) finds is_listening false and start()
\* returns.
StartReturns(i) ==
    /\ i \in 1..Len(starts)
    /\ starts[i].pc = "sleeping"
    /\ ~ear.is_listening
    /\ starts' = [starts EXCEPT ![i].pc = "returned"]
    /\ UNCHANGED <<ear, mic, segments, asr>>

\* stop(): the stream is stopped, closed and forgotten, is_listening is
\* false; nothing else is touched.
Stop(e) == [e EXCEPT !.stream = "none", !.is_listening = FALSE]

\* stop(), or cleanup(), which calls it.
stop ==
    /\ ear' = Stop(ear)
    /\ UNCHANGED <<mic, segments, asr, starts>>

\* The task of start() is cancelled while it sleeps: CancelledError is
\* caught (218-219), stop() runs and start() returns.
CancelStart(i) ==
    /\ i \in 1..Len(starts)
    /\ starts[i].pc = "sleeping"
    /\ ear' = Stop(ear)
    /\ starts' = [starts EXCEPT ![i].pc = "returned"]
    /\ UNCHANGED <<mic, segments, asr>>

\* A new AudioStream is constructed, inside a running loop or not.
Construct(inLoop) ==
    /\ starts = <<>>
    /\ ear' = AudioStream(inLoop)
    /\ UNCHANGED <<mic, segments, asr, starts>>

\* asyncio.to_thread: the call runs on a worker thread of the default
\* executor, whatever the thread of the coroutine.
ToThread(thread) == "worker"

\* _transcribe_and_publish starts on the loop, in submission order, and
\* awaits the recognizer in a worker thread.
TranscribeStart(i) ==
    /\ i \in 1..Len(asr)
    /\ asr[i].pc = "submitted"
    /\ \A j \in 1..(i - 1) : asr[j].pc # "submitted"
    /\ asr' = [asr EXCEPT ![i].pc = "transcribing",
                          ![i].calls = @ + 1,
                          ![i].rthread = ToThread(asr[i].thread)]
    /\ UNCHANGED <<ear, mic, segments, starts>>

\* the handler of a recognizer failure stops the capture
OnAsrFailureStop(e) == Stop(e)

\* except Exception (lines 186-187): the failure is logged; the AudioStream
\* is left as it is.
OnAsrFailure(e) == e

\* The texts a recognizer returns: up to MaxTextLen characters, each a space
\* or a letter. The empty text also stands for None.
MaxTextLen == 2
Chars == {" ", "a"}
Whitespace == {" "}
Texts == UNION {[1..n -> Chars] : n \in 0..MaxTextLen}

\* What the awaited recognizer call does: it raises, or returns a text.
RecognizerOutcomes ==
    {[raised |-> TRUE, text |-> <<>>]} \cup {[raised |-> FALSE, text |-> t] : t \in Texts}

\* str.strip(): the text without its leading and trailing whitespace.
RECURSIVE Strip(_)
Strip(text) ==
    IF text = <<>> THEN text
    ELSE IF Head(text) \in Whitespace THEN Strip(Tail(text))
    ELSE IF text[Len(text)] \in Whitespace THEN Strip(SubSeq(text, 1, Len(text) - 1))
    ELSE text

\* only the empty text is dropped
DroppedIfEmpty(text) == text = <<>>

\* The test of line 170: not text or len(text.strip()) == 0.
Dropped(text) == text = <<>> \/ Len(Strip(text)) = 0

\* The recognizer returns a text or raises: a text that is not dropped is
\* published on the bus, from the thread of the coroutine.
TranscribeFinish(i, out) ==
    /\ i \in 1..Len(asr)
    /\ asr[i].pc = "transcribing"
    /\ LET res == IF out.raised THEN "raised"
                  ELSE IF Dropped(out.text) THEN "empty" ELSE "text"
       IN
       asr' = [asr EXCEPT ![i].res = res,
                          ![i].text = out.text,
                          ![i].pc = IF res = "text" THEN "publishing" ELSE "done",
                          ![i].pthread = IF res = "text" THEN asr[i].thread ELSE @]
    /\ ear' = IF out.raised THEN OnAsrFailure(ear) ELSE ear
    /\ UNCHANGED <<mic, segments, starts>>

\* The publish of the transcription returns, or raises into the same
\* except clause.
PublishFinish(i, out) ==
    /\ i \in 1..Len(asr)
    /\ asr[i].pc = "publishing"
    /\ asr' = [asr EXCEPT ![i].pc = "done",
                          ![i].res = IF out = "raised" THEN "publish_raised" ELSE "published"]
    /\ ear' = IF out = "raised" THEN OnAsrFailure(ear) ELSE ear
    /\ UNCHANGED <<mic, segments, starts>>

\* The capture after the boot of kernel.py: listen_loop() on an AudioStream
\* constructed inside the loop, then the frames.
NextVad ==
    \/ /\ starts = <<>> /\ start("listen_loop", "ok")
       /\ UNCHANGED <<busVars, lifeVars, reflexVars>>
    \/ \E kind \in FrameKinds :
          /\ mic.captured < MaxFrames
          /\ IsSpeech(kind) => mic.voiced < MaxVoiced
          /\ AudioCallback(kind)
          /\ UNCHANGED <<busVars, lifeVars, reflexVars>>

SpecVad == Init /\ [][NextVad]_vars

\* Up to max frames delivered to a running stream, as bursts of speech
\* frames each followed by non-speech frames.
Capture(max) ==
    \E kind \in {"speech", "silence"} :
        /\ mic.captured < max
        /\ IF IsSpeech(kind) THEN mic.voiced < MaxVoiced ELSE ear.is_speech_active
        /\ AudioCallback(kind)

\* With the device opened and closed in between, the frames of one segment
\* and a few more.
MaxFramesDevice == MaxFrames - MaxSilenceFrames

\* The device: start() and listen_loop() with a device that works or fails,
\* stop(), cancellation, and the frames captured in between.
NextDevice ==
    \/ \E via \in {"listen_loop", "start"}, dev \in {"ok", "open_fails", "start_fails"} :
          /\ Len(starts) < MaxStarts
          /\ start(via, dev)
          /\ UNCHANGED <<busVars, lifeVars, reflexVars>>
    \/ \E i \in 1..MaxStarts : StartReturns(i) /\ UNCHANGED <<busVars, lifeVars, reflexVars>>
    \/ stop /\ UNCHANGED <<busVars, lifeVars, reflexVars>>
    \/ \E i \in 1..MaxStarts : CancelStart(i) /\ UNCHANGED <<busVars, lifeVars, reflexVars>>
    \/ Capture(MaxFramesDevice) /\ UNCHANGED <<busVars, lifeVars, reflexVars>>

SpecDevice == Init /\ [][NextDevice]_vars

\* The handoff: an AudioStream constructed inside or outside a running loop,
\* started once by start() or listen_loop(), the frames, and the coroutines
\* it submits.
NextHandoff ==
    \/ \E inLoop \in BOOLEAN : Construct(inLoop) /\ UNCHANGED <<busVars, lifeVars, reflexVars>>
    \/ \E via \in {"listen_loop", "start"} :
          /\ starts = <<>>
          /\ start(via, "ok")
          /\ UNCHANGED <<busVars, lifeVars, reflexVars>>
    \/ Capture(MaxFrames) /\ UNCHANGED <<busVars, lifeVars, reflexVars>>
    \/ \E i \in 1..MaxFrames : TranscribeStart(i) /\ UNCHANGED <<busVars, lifeVars, reflexVars>>
    \/ \E i \in 1..MaxFrames, out \in RecognizerOutcomes :
          TranscribeFinish(i, out) /\ UNCHANGED <<busVars, lifeVars, reflexVars>>
    \/ \E i \in 1..MaxFrames, out \in {"returned", "raised"} :
          PublishFinish(i, out) /\ UNCHANGED <<busVars, lifeVars, reflexVars>>

SpecHandoff == Init /\ [][NextHandoff]_vars

\* The positions in frames of the frames the VAD took for speech.
Voiced(frames) == {k \in 1..Len(frames) : IsSpeech(frames[k].kind)}

\* The bytes of the speech burst in frames: from its first speech frame
\* through its last.
BurstBytes(frames) ==
    IF Voiced(frames) = {} THEN 0
    ELSE LET a == CHOOSE k \in Voiced(frames) : \A j \in Voiced(frames) : k <= j
             b == CHOOSE k \in Voiced(frames) : \A j \in Voiced(frames) : k >= j
         IN (b - a + 1) * FrameBytes

\* C24: a speech burst shorter than the minimum duration (9600 bytes, ten
\* frames of 960 bytes), followed by silence, is not handed to the
\* recognizer.
C24_ShortBurstDropped ==
    (segments.count > 0 /\ BurstBytes(segments.frames) < MinSegmentBytes)
        => segments.out # "submitted"

\* C25: from the start of capture, a segment is finalized exactly on the
\* 21st consecutive non-speech frame after a speech frame, and not earlier;
\* it is made of the frames from the first speech frame since the previous
\* segment through that 21st frame, each once and in capture order; so a
\* speech region with gaps of at most 20 frames followed by 21 non-speech
\* frames gives exactly one segment.
C25_OneSegmentPerSpeechRegion ==
    [][/\ segments'.count \in {segments.count, segments.count + 1}
       /\ segments'.count = segments.count + 1 =>
             /\ mic.first # 0
             /\ mic'.captured - mic.latest = MaxSilenceFrames + 1
             /\ \A k \in (mic.latest + 1)..mic'.captured :
                   ~IsSpeech(segments'.frames[k - mic.first + 1].kind)
             /\ Len(segments'.frames) = mic'.captured - mic.first + 1
             /\ \A k \in 1..Len(segments'.frames) : segments'.frames[k].n = mic.first + k - 1
             /\ IsSpeech(segments'.frames[1].kind)
       /\ segments'.count = segments.count =>
             (mic'.latest # 0 => mic'.captured - mic'.latest <= MaxSilenceFrames)
       /\ mic'.first # 0 <=> ear'.is_speech_active]_vars

\* One segment has been finalized for a speech region with a gap of 20
\* frames: a leading silence frame, a speech frame, 20 non-speech frames, a
\* speech frame and 21 non-speech frames.
C25_Witness ==
    /\ segments.count = 1
    /\ Len(segments.frames) = 2 * MaxSilenceFrames + 3
    /\ segments.frames[1].n = 2
    /\ Voiced(segments.frames) = {1, MaxSilenceFrames + 2}
    /\ mic.captured = 2 * MaxSilenceFrames + 4

\* A segment is finalized in this step.
Finalizes == segments'.count = segments.count + 1

\* C26: every finalized segment that passes the duration gate and the
\* energy gate is submitted as exactly one coroutine, which calls the
\* recognizer exactly once, however the AudioStream was constructed (inside
\* or outside a running loop) and started (listen_loop() or start()).
C26_OneRecognizerCallPerSegment ==
    [][/\ (/\ Finalizes
           /\ Len(segments'.frames) * FrameBytes >= MinSegmentBytes
           /\ ~TooQuiet(segments'.frames)) =>
              /\ Len(asr') = Len(asr) + 1
              /\ asr'[Len(asr')].seg = segments'.count
       /\ \A i \in 1..Len(asr) :
             (asr[i].pc # "done" /\ asr'[i].pc = "done") => asr'[i].calls = 1]_vars

\* C27: the coroutine runs on the loop, its recognizer call on a worker
\* thread and its publish on the loop, never on the capture thread; a step
\* of the capture callback does nothing to the coroutines but append one
\* that has not started, and so does not wait for it.
C27_HandoffOffCaptureThread ==
    [][/\ \A i \in 1..Len(asr') :
             /\ asr'[i].thread = "loop"
             /\ asr'[i].rthread \in {"none", "worker"}
             /\ asr'[i].pthread \in {"none", "loop"}
       /\ mic'.captured # mic.captured =>
             \/ asr' = asr
             \/ /\ Len(asr') = Len(asr) + 1
                /\ SubSeq(asr', 1, Len(asr)) = asr
                /\ asr'[Len(asr')].pc = "submitted"
                /\ asr'[Len(asr')].calls = 0]_vars

\* The coroutine of the first segment has called the recognizer in a worker
\* thread and is publishing on the loop, while the capture has gone on past
\* the segment.
C27_Witness ==
    \E i \in 1..Len(asr) :
        /\ asr[i].seg = 1
        /\ asr[i].pc = "publishing"
        /\ asr[i].rthread = "worker"
        /\ asr[i].pthread = "loop"
        /\ segments.count = 1
        /\ mic.captured > segments.frames[Len(segments.frames)].n

\* C28: a segment finalized after the device was closed and opened again
\* holds no frame captured before it was last opened: what was accumulating
\* when the device was closed is never finalized.
C28_PartialSegmentDiscarded ==
    [][Finalizes =>
          \A k \in 1..Len(segments'.frames) : segments'.frames[k].n > mic.opened]_vars

\* C29: when the device fails to open or to start, start() raises to its
\* caller, and is_listening stays false.
C29_StartFailureReported ==
    [][(/\ Len(starts') = Len(starts) + 1
        /\ starts'[Len(starts')].dev \in {"open_fails", "start_fails"}) =>
          /\ starts'[Len(starts')].pc = "raised"
          /\ ~ear'.is_listening]_vars

\* C30: when the recognizer raises for a segment, the coroutine ends there;
\* is_listening, the stream, the VAD state and the capture are untouched, so
\* later segments are captured and handed over as before.
C30_RecognizerFailureIsolated ==
    [][\A i \in 1..Len(asr) :
          (asr[i].pc = "transcribing" /\ asr'[i].res = "raised") =>
             /\ asr'[i].pc = "done"
             /\ ear' = ear /\ ear.is_listening /\ ear.stream = "running"
             /\ mic' = mic /\ segments' = segments /\ starts' = starts
             /\ \A j \in 1..Len(asr) : j # i => asr'[j] = asr[j]]_vars

\* After the recognizer raised for the first segment, the second segment
\* has been captured, recognized and published.
C30_Witness ==
    /\ Len(asr) = 2
    /\ asr[1].res = "raised" /\ asr[1].pc = "done"
    /\ asr[2].res = "published" /\ asr[2].calls = 1
    /\ segments.count = 2
    /\ ear.is_listening

\* Up to max frames of any kind delivered to a running stream: frames the
\* VAD takes for speech, loud or not, and non-speech frames while a segment
\* is open.
CaptureAnyKind(max) ==
    \E kind \in FrameKinds :
        /\ mic.captured < max
        /\ IF IsSpeech(kind) THEN mic.voiced < MaxVoiced ELSE ear.is_speech_active
        /\ AudioCallback(kind)

\* The energy gate: listen_loop() after the boot of kernel.py, frames of
\* every kind, and the coroutines of the segments that pass.
NextEnergy ==
    \/ /\ starts = <<>> /\ start("listen_loop", "ok")
       /\ UNCHANGED <<busVars, lifeVars, reflexVars>>
    \/ CaptureAnyKind(MaxFrames) /\ UNCHANGED <<busVars, lifeVars, reflexVars>>
    \/ \E i \in 1..MaxFrames : TranscribeStart(i) /\ UNCHANGED <<busVars, lifeVars, reflexVars>>
    \/ \E i \in 1..MaxFrames, out \in RecognizerOutcomes :
          TranscribeFinish(i, out) /\ UNCHANGED <<busVars, lifeVars, reflexVars>>
    \/ \E i \in 1..MaxFrames, out \in {"returned", "raised"} :
          PublishFinish(i, out) /\ UNCHANGED <<busVars, lifeVars, reflexVars>>

SpecEnergy == Init /\ [][NextEnergy]_vars

\* C31: a finalized segment whose RMS is below the floor submits no
\* coroutine, whatever the VAD said of its frames; a coroutine, and with it
\* a recognizer call or a publish, only ever comes from the finalization of
\* a segment whose RMS is not below the floor, and carries its number.
C31_QuietSegmentNeverRecognized ==
    [][/\ (Finalizes /\ TooQuiet(segments'.frames)) => asr' = asr
       /\ Len(asr') > Len(asr) =>
             /\ Finalizes
             /\ ~TooQuiet(segments'.frames)
             /\ asr'[Len(asr')].seg = segments'.count
       /\ \A i \in 1..Len(asr) : asr'[i].seg = asr[i].seg]_vars

\* A first segment of frames the VAD took for speech was below the floor
\* and dropped; the second, loud one was recognized and published.
C31_Witness ==
    /\ segments.count = 2
    /\ Len(asr) = 1
    /\ asr[1].seg = 2
    /\ asr[1].calls = 1
    /\ asr[1].res = "published"
    /\ \E k \in 1..Len(segments.frames) : segments.frames[k].kind = "speech"

\* The text has a character that is not whitespace.
HasContent(text) == \E k \in 1..Len(text) : text[k] \notin Whitespace

\* C32: when the recognizer call of a coroutine returns, the transcription
\* is published iff the text has a character that is not whitespace; a
\* publish begins only there, once per coroutine, since the recognizer is
\* called once; an empty or whitespace-only text, or a failure, ends the
\* coroutine with nothing published.
C32_PublishIffTextHasContent ==
    [][\A i \in 1..Len(asr) :
          /\ (asr[i].pc = "transcribing" /\ asr'[i].pc # "transcribing") =>
                /\ asr'[i].pc = "publishing" <=>
                      (asr'[i].res # "raised" /\ HasContent(asr'[i].text))
                /\ asr'[i].pc # "publishing" =>
                      (asr'[i].pc = "done" /\ asr'[i].pthread = "none")
                /\ asr'[i].calls = 1
          /\ (asr[i].pc # "publishing" /\ asr'[i].pc = "publishing") =>
                asr[i].pc = "transcribing"
          /\ asr[i].pc = "done" => asr'[i] = asr[i]]_vars

\* The text of the first segment, with a space before its letter, was
\* published; that of the second, a single space, was dropped.
C32_Witness ==
    /\ Len(asr) = 2
    /\ asr[1].text = <<" ", "a">> /\ asr[1].res = "published"
    /\ asr[2].text = <<" ">> /\ asr[2].res = "empty" /\ asr[2].pc = "done"
    /\ asr[2].pthread = "none"

\* C35: transcriptions are published in the order in which their segments
\* were finalized: when the coroutine of a segment begins its publish, no
\* coroutine of a later segment has begun one.
C35_PublishedInFinalizationOrder ==
    [][\A j \in 1..Len(asr), i \in 1..Len(asr) :
          (/\ asr[j].seg < asr[i].seg
           /\ asr[j].pc = "transcribing"
           /\ asr'[j].pc = "publishing") => asr[i].pthread = "none"]_vars

----------------------------------------------------------------------------
\* Keyword matching (src/src/cradle/selrena/synapse/reflex.py, lines 23-52
\* and 69-88). A text is a sequence of characters; a character outside ASCII
\* is written as its code point.

\* Bound: the pieces a transcription text is put together from.
MaxPieces == 3

\* The pieces of the texts: keywords of each list in lower and upper case, a
\* space, a Latin letter and a CJK character that is in no keyword.
Pieces ==
    {<<"h", "i">>, <<"H", "i">>, <<"s", "t", "o", "p">>,
     <<"S", "T", "O", "P">>, <<"b", "y", "e">>, <<"B", "y", "e">>,
     <<"U+4F60", "U+597D">>, <<"U+95ED", "U+5634">>, <<"U+9000", "U+51FA">>,
     <<" ">>, <<"s">>, <<"U+5417">>}

RECURSIVE TextsOf(_)
TextsOf(n) ==
    IF n = 0 THEN {<<>>}
    ELSE TextsOf(n - 1) \cup {t \o q : t \in TextsOf(n - 1), q \in Pieces}

\* The transcription texts: up to MaxPieces pieces, one after the other.
KeywordTexts == TextsOf(MaxPieces)

\* The keyword lists of ReflexController.__init__.
wake_keywords_zh ==
    {<<"U+6708", "U+89C1">>, <<"U+8D5B", "U+7433", "U+5A1C">>,
     <<"U+8272", "U+745E", "U+5A1C">>, <<"U+745F", "U+745E", "U+5A1C">>,
     <<"U+585E", "U+7433", "U+5A1C">>, <<"U+8D5B", "U+7433">>,
     <<"U+8D5B", "U+745E", "U+5A1C">>, <<"U+8428", "U+7433", "U+5A1C">>,
     <<"U+4F60", "U+597D">>}

wake_keywords_en ==
    {<<"s", "e", "l", "r", "e", "n", "a">>,
     <<"s", "e", "r", "e", "n", "a">>,
     <<"s", "a", "l", "r", "e", "n", "a">>,
     <<"s", "e", "r", "i", "n", "a">>, <<"s", "e", "l", "i", "n", "a">>,
     <<"c", "e", "l", "i", "n", "a">>, <<"h", "e", "l", "l", "o">>,
     <<"h", "i">>, <<"h", "e", "y">>}

exit_keywords_zh ==
    {<<"U+9000", "U+51FA">>, <<"U+5173", "U+95ED">>, <<"U+4F11", "U+7720">>}

exit_keywords_en ==
    {<<"s", "h", "u", "t", "d", "o", "w", "n">>, <<"e", "x", "i", "t">>,
     <<"s", "l", "e", "e", "p">>, <<"g", "o", "o", "d", "b", "y", "e">>,
     <<"b", "y", "e">>}

stop_keywords ==
    {<<"U+522B", "U+8BF4", "U+4E86">>, <<"U+95ED", "U+5634">>,
     <<"U+505C", "U+4E0B">>, <<"s", "t", "o", "p">>,
     <<"s", "h", "u", "t", "u", "p">>, <<"q", "u", "i", "e", "t">>}

\* The wake keywords of SensoryCortex.__init__: one more than those of
\* ReflexController; the Latin ones are the same.
cortex_wake_keywords_zh ==
    {<<"U+6708", "U+89C1">>, <<"U+5C0F", "U+6708">>,
     <<"U+8D5B", "U+7433", "U+5A1C">>, <<"U+8272", "U+745E", "U+5A1C">>,
     <<"U+745F", "U+745E", "U+5A1C">>, <<"U+585E", "U+7433", "U+5A1C">>,
     <<"U+8D5B", "U+7433">>, <<"U+8D5B", "U+745E", "U+5A1C">>,
     <<"U+8428", "U+7433", "U+5A1C">>, <<"U+4F60", "U+597D">>}

Capitals == <<"A", "B", "C", "D", "E", "F", "G", "H", "I", "J", "K", "L", "M",
              "N", "O", "P", "Q", "R", "S", "T", "U", "V", "W", "X", "Y", "Z">>
Letters == <<"a", "b", "c", "d", "e", "f", "g", "h", "i", "j", "k", "l", "m",
             "n", "o", "p", "q", "r", "s", "t", "u", "v", "w", "x", "y", "z">>

\* str.lower(): capitals become lower-case letters, the rest is kept.
Lower(text) ==
    [k \in 1..Len(text) |->
        IF \E a \in 1..26 : Capitals[a] = text[k]
        THEN Letters[CHOOSE a \in 1..26 : Capitals[a] = text[k]]
        ELSE text[k]]

\* kw in text: the keyword occurs in the text at position k.
OccursAt(text, keyword, k) ==
    /\ k >= 1
    /\ k + Len(keyword) - 1 <= Len(text)
    /\ SubSeq(text, k, k + Len(keyword) - 1) = keyword

Contains(text, keyword) == \E k \in 1..Len(text) : OccursAt(text, keyword, k)

\* \w of a str pattern: letters of any script, digits and the underscore;
\* of the characters of the texts all but the space.
IsWordChar(c) == c # " "

\* \b between the characters k and k + 1 of the text: one side is \w and the
\* other is not, the outside of the text counting as not \w.
WordBoundary(text, k) ==
    LET left == k >= 1 /\ k <= Len(text) /\ IsWordChar(text[k])
        right == k + 1 >= 1 /\ k + 1 <= Len(text) /\ IsWordChar(text[k + 1])
    IN left # right

\* re.search(r'\b' + re.escape(kw) + r'\b', text)
SearchWord(text, keyword) ==
    \E k \in 1..Len(text) :
        /\ OccursAt(text, keyword, k)
        /\ WordBoundary(text, k - 1)
        /\ WordBoundary(text, k + Len(keyword) - 1)

\* _match_keywords: the text in lower case has a keyword of zh_list in it,
\* or a keyword of en_list between word boundaries.
MatchKeywords(text, zh_list, en_list) ==
    LET text_clean == Lower(text) IN
    \/ \E keyword \in zh_list : Contains(text_clean, keyword)
    \/ \E keyword \in en_list : SearchWord(text_clean, keyword)

\* The test of line 72 on the text in lower case (line 69): any stop
\* keyword is in it.
StopMatch(text) == \E w \in stop_keywords : Contains(Lower(text), w)

\* What the two handlers find in a transcription text.
Heard(text) ==
    [empty |-> text = <<>>,
     stop |-> StopMatch(text),
     exit |-> MatchKeywords(Lower(text), exit_keywords_zh, exit_keywords_en),
     wake |-> MatchKeywords(Lower(text), wake_keywords_zh, wake_keywords_en),
     cwake |-> MatchKeywords(text, cortex_wake_keywords_zh, wake_keywords_en),
     text |-> text]

\* ReflexController on one transcription, of any of the texts.
NextKeywords ==
    \/ \E text \in KeywordTexts, d \in Ticks :
          /\ hearings = <<>>
          /\ Hear(Heard(text), d, {"reflex"})
          /\ UNCHANGED <<busVars, lifeVars, earVars>>
    \/ \E h \in 1..MaxHearings : ReflexStart(h) /\ UNCHANGED <<busVars, lifeVars, earVars>>
    \/ \E h \in 1..MaxHearings, out \in {"returned", "raised"} :
          ReflexResume(h, out) /\ UNCHANGED <<busVars, lifeVars, earVars>>

SpecKeywords == Init /\ [][NextKeywords]_vars

\* The character is a Latin letter.
IsLatin(c) == \E a \in 1..26 : c \in {Letters[a], Capitals[a]}

\* The keyword, in Latin script, occurs in the text as a whole word: with
\* no Latin letter right before it or right after it.
AsWholeWord(text, keyword) ==
    \E k \in 1..Len(text) :
        /\ OccursAt(text, keyword, k)
        /\ k > 1 => ~IsLatin(text[k - 1])
        /\ k + Len(keyword) <= Len(text) => ~IsLatin(text[k + Len(keyword)])

\* The text matches a list as the claim has it, whatever the case of its
\* letters: a keyword in Latin script as a whole word, a CJK keyword as a
\* substring.
MatchesList(text, list) ==
    \E keyword \in list :
        IF IsLatin(keyword[1]) THEN AsWholeWord(Lower(text), keyword)
        ELSE Contains(Lower(text), keyword)

\* C33: ReflexController publishes MUTE, publishes system.shutdown, or takes
\* a wake keyword to be in the text only if a keyword of the list is in the
\* text in any case, a Latin one as a whole word, a CJK one as a substring;
\* and a CJK keyword anywhere in the text always matches.
C33_KeywordMatching ==
    [][\A h \in 1..Len(hearings) :
          LET text == hearings[h].u.text IN
          /\ (hearings[h].rpc = "scheduled" /\ hearings'[h].rpc = "mute") =>
                MatchesList(text, stop_keywords)
          /\ (hearings[h].rpc # "exit" /\ hearings'[h].rpc = "exit") =>
                MatchesList(text, exit_keywords_zh \cup exit_keywords_en)
          /\ (hearings[h].rpc # "arousal" /\ hearings'[h].rpc = "arousal" /\ woke'.since = 0) =>
                MatchesList(text, wake_keywords_zh \cup wake_keywords_en)
          /\ (hearings[h].rpc = "scheduled" /\ hearings'[h].rpc # "scheduled"
              /\ \E keyword \in stop_keywords :
                    ~IsLatin(keyword[1]) /\ Contains(text, keyword)) =>
                hearings'[h].rpc = "mute"]_vars

\* C34: ReflexController's is_awake and last_wake_time change only in a step
\* of its own transcription handler, and SensoryCortex's only in a step of
\* its own: no published event, no step of the other handler and no passage
\* of time changes them.
C34_ArousalStateOwnedByHandler ==
    [][/\ reflex' # reflex =>
             /\ cortex' = cortex
             /\ \E h \in 1..Len(hearings) :
                   /\ hearings[h].rpc \in {"scheduled", "mute"}
                   /\ hearings'[h].rpc = "arousal"
                   /\ hearings'[h].cpc = hearings[h].cpc
       /\ cortex' # cortex =>
             /\ reflex' = reflex
             /\ \E h \in 1..Len(hearings) :
                   /\ hearings[h].cpc = "scheduled"
                   /\ hearings'[h].cpc # "scheduled"
                   /\ hearings'[h].rpc = hearings[h].rpc]_vars

\* An utterance with a wake keyword of SensoryCortex alone has been handled
\* by both: ReflexController published state.arousal with is_awake false,
\* SensoryCortex handled that event and is still awake.
C34_Witness ==
    /\ Len(hearings) = 1
    /\ hearings[1] = Handled
    /\ cortex.is_awake
    /\ ~reflex.is_awake
    /\ woke.since = 1

\* Both filters subscribed, on utterances without a shutdown keyword that
\* come one at a time: the next is published when the handlers of the last
\* have ended, and the clock stands still while they run, so both evaluate
\* an utterance at the same clock reading.
NextSequence ==
    \/ \E u \in Utterances, d \in Ticks :
          /\ Len(hearings) < MaxHearings /\ Busy = {}
          /\ ~u.exit
          /\ Hear(u, d, Filters)
          /\ UNCHANGED <<busVars, lifeVars, earVars>>
    \/ \E h \in 1..MaxHearings : ReflexStart(h) /\ UNCHANGED <<busVars, lifeVars, earVars>>
    \/ \E h \in 1..MaxHearings, out \in {"returned", "raised"} :
          ReflexResume(h, out) /\ UNCHANGED <<busVars, lifeVars, earVars>>
    \/ \E h \in 1..MaxHearings : CortexStart(h) /\ UNCHANGED <<busVars, lifeVars, earVars>>
    \/ \E h \in 1..MaxHearings, out \in {"returned", "raised"} :
          CortexResume(h, out) /\ UNCHANGED <<busVars, lifeVars, earVars>>

SpecSequence == Init /\ [][NextSequence]_vars

\* C38: after every utterance, when the handlers of both components have
\* ended, ReflexController's last_wake_time is at most SensoryCortex's, and
\* ReflexController is awake only if SensoryCortex is.
C38_ReflexNeverAwakeLonger ==
    Busy = {} =>
        /\ reflex.last_wake_time <= cortex.last_wake_time
        /\ reflex.is_awake => cortex.is_awake

\* Both filters subscribed, and a transcription published while handlers of
\* an earlier one are suspended in a publish: each segment of AudioStream
\* publishes from a coroutine of its own. The transcriptions have a text
\* without a shutdown keyword, the wake keywords are those of both filters,
\* and they come two seconds apart.
NextOverlap ==
    \/ \E u \in Utterances :
          /\ Len(hearings) < MaxHearingsBoth /\ Cardinality(Busy) < MaxInFlight
          /\ ~u.empty /\ ~u.exit /\ u.cwake = u.wake
          /\ Hear(u, 2, Filters)
          /\ UNCHANGED <<busVars, lifeVars, earVars>>
    \/ \E h \in 1..MaxHearings : ReflexStart(h) /\ UNCHANGED <<busVars, lifeVars, earVars>>
    \/ \E h \in 1..MaxHearings, out \in {"returned", "raised"} :
          ReflexResume(h, out) /\ UNCHANGED <<busVars, lifeVars, earVars>>
    \/ \E h \in 1..MaxHearings : CortexStart(h) /\ UNCHANGED <<busVars, lifeVars, earVars>>
    \/ \E h \in 1..MaxHearings, out \in {"returned", "raised"} :
          CortexResume(h, out) /\ UNCHANGED <<busVars, lifeVars, earVars>>

SpecOverlap == Init /\ [][NextOverlap]_vars

\* C39: the handler of ReflexController for a transcription starts, and with
\* a stop keyword publishes MUTE, before the handler of SensoryCortex for
\* the same transcription has started; and when its task is the only one
\* ready to run it can start, whatever forwards of earlier transcriptions
\* are still suspended in their publish.
C39_MuteNeverWaitsForForward ==
    \A h \in 1..Len(hearings) :
        /\ hearings[h].rpc = "scheduled" => hearings[h].cpc = "scheduled"
        /\ (/\ hearings[h].rpc = "scheduled"
            /\ \A g \in 1..Len(hearings) :
                  g # h => hearings[g].rpc # "scheduled" /\ hearings[g].cpc # "scheduled")
              => ENABLED ReflexStart(h)

\* The MUTE of the second transcription is published while the forward of
\* the first is still suspended in its publish.
C39_Witness ==
    /\ Len(hearings) = 2
    /\ hearings[1].cpc = "forward"
    /\ hearings[2].u.stop
    /\ hearings[2].rpc = "mute"
    /\ Published(hearings[2].revents, "signal.reflex") = 1

----------------------------------------------------------------------------
\* shutdown() and unregister() together (src/src/cradle/core/lifecycle.py)

\* Boot as in kernel.py, then one shutdown trigger, and unregister() calls
\* made while shutdown() is suspended in a teardown.
NextShutdownUnregister ==
    \/ \E c \in Components :
          waiter = "none" /\ c \notin Range(components) /\ register(c)
          /\ UNCHANGED <<busVars, reflexVars, earVars>>
    \/ waiter = "none" /\ wait_for_shutdown /\ UNCHANGED <<busVars, reflexVars, earVars>>
    \/ \E via \in {"event", "call"} :
          runs = <<>> /\ trigger(via) /\ UNCHANGED <<busVars, reflexVars, earVars>>
    \/ \E r \in 1..MaxTriggers : shutdown(r) /\ UNCHANGED <<busVars, reflexVars, earVars>>
    \/ \E r \in 1..MaxTriggers, out \in {"returned", "raised"} :
          TeardownFinish(r, out) /\ UNCHANGED <<busVars, reflexVars, earVars>>
    \/ WaiterResume /\ UNCHANGED <<busVars, reflexVars, earVars>>
    \/ \E c \in Components :
          /\ Len(unregs) < MaxUnregisters - 1
          /\ \E r \in 1..Len(runs) : runs[r].pc = "teardown"
          /\ unregister(c)
          /\ UNCHANGED <<busVars, reflexVars, earVars>>
    \/ \E u \in 1..MaxUnregisters, out \in {"returned", "raised"} :
          UnregisterFinish(u, out) /\ UNCHANGED <<busVars, reflexVars, earVars>>

SpecShutdownUnregister == Init /\ [][NextShutdownUnregister]_vars

\* The teardown calls of component c made by activation r of shutdown().
TornBy(r, c) ==
    Cardinality({k \in 1..Len(torn) : torn[k].c = c /\ torn[k].by = <<"shutdown", r>>})

\* C36: with unregister() calls made while shutdown() is suspended in a
\* teardown, shutdown() tears no component down twice, and when it has
\* returned it has torn down, once, every component still registered.
C36_UnregisterDuringShutdown ==
    \A r \in 1..Len(runs) :
        /\ \A c \in Components : TornBy(r, c) <= 1
        /\ ShutdownReturned(r) => \A c \in Range(components) : TornBy(r, c) = 1

----------------------------------------------------------------------------
\* The boot of kernel.py and the shutdown by voice: the bus, the
\* LifecycleManager and the two filters together.

\* The subscribe() calls up to the end of the boot, in call order: the
\* LifecycleManager at construction, SoulIntellect.initialize,
\* ReflexController.initialize, SensoryCortex.initialize, VirtualMouth().
BootRegistrations ==
    <<<<"system.shutdown", "lifecycle._on_shutdown_signal">>,
      <<"input.user_message", "soul._on_hear">>,
      <<"perception.audio.transcription", "reflex.on_audio_transcription">>,
      <<"perception.audio.transcription", "cortex.on_audio_transcription">>,
      <<"state.arousal", "cortex.on_arousal_state">>,
      <<"action.presentation.speak", "mouth._on_speak_action">>,
      <<"signal.reflex", "mouth._on_reflex_signal">>>>

\* The components kernel.py registers, in registration order.
KernelComponents == <<"soul", "cortex", "reflex", "ear">>

\* subscribe() for each registration of the list, in order.
\* T is the pair of tables [s |-> _subscribers, r |-> _receivers].
RECURSIVE SubscribeEach(_, _)
SubscribeEach(T, regs) ==
    IF regs = <<>> THEN T
    ELSE SubscribeEach(
            [s |-> SubscribeSubs(T.s, Head(regs)[1], Head(regs)[2]),
             r |-> SubscribeRecv(T.r, Head(regs)[1], Head(regs)[2])],
            Tail(regs))

\* register() for each component of the list, in order.
RECURSIVE RegisterEach(_, _)
RegisterEach(l, cs) ==
    IF cs = <<>> THEN l ELSE RegisterEach(RegisterComponents(l, Head(cs)), Tail(cs))

\* boot_sequence() up to its await of wait_for_shutdown(): the components
\* subscribe and are registered; nothing in between yields to the loop.
boot_sequence ==
    /\ components = <<>>
    /\ subscribers = <<>>
    /\ waiter = "none"
    /\ LET T == SubscribeEach([s |-> subscribers, r |-> receivers], BootRegistrations) IN
       /\ subscribers' = T.s
       /\ receivers' = T.r
    /\ subscribed' = subscribed + Len(BootRegistrations)
    /\ components' = RegisterEach(components, KernelComponents)
    /\ UNCHANGED <<handle, tasks, pubs, last>>
    /\ UNCHANGED <<is_running, shutdown_event, waiter, runs, unregs, torn>>

\* The handler a filter subscribes to perception.audio.transcription.
Handler(f) ==
    IF f = "reflex" THEN "reflex.on_audio_transcription"
    ELSE "cortex.on_audio_transcription"

\* The filters whose handler a publish of a transcription finds in the
\* topic index.
Listening ==
    {f \in Filters :
        Count(MatchedCallbacks(subscribers, "perception.audio.transcription"), Handler(f)) > 0}

\* cleanup() of a component on the tables of the bus: SoulIntellect,
\* SensoryCortex and ReflexController call unsubscribe_receiver(self);
\* AudioStream stops its device.
CleanupTables(c) ==
    IF c \in {"soul", "cortex", "reflex"}
    THEN UnsubscribeReceiverTables(subscribers, receivers, c)
    ELSE [s |-> subscribers, r |-> receivers]

\* The cleanup of SoulIntellect awaits that of its brain; the cleanups of
\* the other components have no await in them and run to their end within
\* the step of the loop that calls them.
Suspends(c) == c = "soul"

\* A cleanup without an await is running: no other task runs before it ends.
SyncTeardown == \E k \in 1..Len(torn) : torn[k].st = "running" /\ ~Suspends(torn[k].c)

\* The teardown call the loop of shutdown() makes in this step, if it makes
\* one, runs up to its first await: the component is off the bus.
TeardownBegins ==
    LET T == IF Len(torn') > Len(torn)
             THEN CleanupTables(torn'[Len(torn')].c)
             ELSE [s |-> subscribers, r |-> receivers]
    IN
    /\ subscribers' = T.s
    /\ receivers' = T.r
    /\ ear' = IF Len(torn') > Len(torn) /\ torn'[Len(torn')].c = "ear" THEN Stop(ear) ELSE ear
    /\ UNCHANGED <<subscribed, handle, tasks, pubs, last, mic, segments, asr, starts>>

\* publish(system.shutdown) by the handler of hearing h in this step: the
\* bus creates the task of _on_shutdown_signal.
PublishesShutdown(h) ==
    IF hearings[h].rpc # "exit" /\ hearings'[h].rpc = "exit"
    THEN trigger(<<"event", h>>)
    ELSE UNCHANGED lifeVars

\* The activation of shutdown() that the system.shutdown event of hearing h
\* started has returned: gather() in publish is done.
ShutdownHandled(h) ==
    \E r \in 1..Len(runs) : runs[r].via = <<"event", h>> /\ runs[r].pc \in {"done", "raised"}

\* The outcomes of the publish the handler of hearing h awaits: of
\* signal.reflex, whose subscriber VirtualMouth may raise; of
\* system.shutdown, once _on_shutdown_signal has returned; of state.arousal.
PublishOutcomes(h) ==
    IF hearings[h].rpc = "mute" THEN {"returned", "raised"}
    ELSE IF hearings[h].rpc = "exit" /\ ~ShutdownHandled(h) THEN {}
    ELSE {"returned"}

\* The system from the boot on: a direct call of shutdown(), the waiter,
\* transcriptions once the ear task can run, the handlers of the filters,
\* and shutdown() from the system.shutdown events of ReflexController.
NextVoice ==
    \/ boot_sequence /\ UNCHANGED <<reflexVars, earVars>>
    \/ /\ components # <<>> /\ waiter = "none"
       /\ wait_for_shutdown
       /\ UNCHANGED <<busVars, reflexVars, earVars>>
    \/ /\ components # <<>> /\ runs = <<>>
       /\ trigger(<<"call", 0>>)
       /\ UNCHANGED <<busVars, reflexVars, earVars>>
    \/ \E r \in 1..MaxTriggers :
          /\ ~SyncTeardown
          /\ shutdown(r)
          /\ TeardownBegins
          /\ UNCHANGED reflexVars
    \/ \E r \in 1..MaxTriggers, out \in {"returned", "raised"} :
          /\ TeardownFinish(r, out)
          /\ out = "raised" => torn[Awaited(<<"shutdown", r>>)].c \in {"ear", "soul"}
          /\ TeardownBegins
          /\ UNCHANGED reflexVars
    \/ ~SyncTeardown /\ WaiterResume /\ UNCHANGED <<busVars, reflexVars, earVars>>
    \/ \E u \in Utterances :
          /\ waiter # "none" /\ ~SyncTeardown
          /\ Len(hearings) < MaxHearingsBoth
          /\ ~u.empty /\ u.cwake = u.wake
          /\ Hear(u, 2, Listening)
          /\ UNCHANGED <<busVars, lifeVars, earVars>>
    \/ \E h \in 1..MaxHearings :
          /\ ~SyncTeardown
          /\ ReflexStart(h)
          /\ PublishesShutdown(h)
          /\ UNCHANGED <<busVars, earVars>>
    \/ \E h \in 1..MaxHearings :
          /\ h <= Len(hearings) /\ ~SyncTeardown
          /\ \E out \in PublishOutcomes(h) : ReflexResume(h, out)
          /\ PublishesShutdown(h)
          /\ UNCHANGED <<busVars, earVars>>
    \/ \E h \in 1..MaxHearings :
          ~SyncTeardown /\ CortexStart(h) /\ UNCHANGED <<busVars, lifeVars, earVars>>
    \/ \E h \in 1..MaxHearings, out \in {"returned", "raised"} :
          ~SyncTeardown /\ CortexResume(h, out) /\ UNCHANGED <<busVars, lifeVars, earVars>>

SpecVoice == Init /\ [][NextVoice]_vars

\* The steps of the event loop: every step but the arrival of a
\* transcription and the direct call of shutdown().
VoiceLoopStep ==
    /\ NextVoice
    /\ Len(hearings') = Len(hearings)
    /\ Len(runs') > Len(runs) => runs'[Len(runs')].via # <<"call", 0>>

\* The loop keeps running its ready tasks, and every awaited teardown ends.
FairSpecVoice == SpecVoice /\ WF_vars(VoiceLoopStep)

\* C37: once wait_for_shutdown is waiting, a transcription with a shutdown
\* keyword in its text, handed to the handler of ReflexController, leads to
\* the return of wait_for_shutdown.
C37_ShutdownKeywordReleasesWaiter ==
    (\E h \in 1..Len(hearings) :
        /\ hearings[h].u.exit
        /\ hearings[h].rpc = "scheduled"
        /\ waiter = "waiting")
    ~> (waiter = "released")

\* An activation of shutdown() has returned.
ShutdownHasReturned == \E r \in 1..Len(runs) : runs[r].pc = "done"

\* The component has a registration in one of the two tables of the bus.
Registered(o) ==
    \/ o \in DOMAIN receivers
    \/ \E t \in DOMAIN subscribers : \E k \in 1..Len(subscribers[t]) :
          Receiver(subscribers[t][k]) = o

\* C40: once shutdown() has returned with ReflexController and SensoryCortex
\* registered, neither has a registration on the bus, and a transcription
\* published from then on starts no handler of theirs, so that nothing is
\* published for it.
C40_NothingHeardAfterShutdown ==
    [][(ShutdownHasReturned /\ {"reflex", "cortex"} \subseteq Range(components)) =>
          /\ ~Registered("reflex") /\ ~Registered("cortex")
          /\ Len(hearings') > Len(hearings) => hearings'[Len(hearings')] = Handled]_vars

====
